---- MODULE Spec2Model ----
(***************************************************************************)
(* Model of the streaming archive ingestion pipeline of journiv-app:       *)
(* ZipHandler.stream_extract (app/utils/import_export/zip_handler.py) and  *)
(* MediaHandler.validate_media (app/utils/import_export/media_handler.py). *)
(*                                                                         *)
(* Strings are sequences of one-character strings, so that prefix tests,   *)
(* case folding and path splitting are computed as the code computes them. *)
(* A resolved path is a sequence of components (each a string).  The       *)
(* filesystem holds no symbolic links: Path.resolve() is lexical.          *)
(***************************************************************************)
EXTENDS Integers, Sequences, FiniteSets, TLC

(***************************************************************************)
(* Bounds of the model.                                                    *)
(***************************************************************************)
\* longest archive (number of entries in the table of contents)
MaxEntries == 2

(***************************************************************************)
(* String helpers (str.startswith, str.endswith, str.lower).               *)
(***************************************************************************)
startswith(s, p) == Len(s) >= Len(p) /\ SubSeq(s, 1, Len(p)) = p

endswith(s, p) == Len(s) >= Len(p) /\ SubSeq(s, Len(s) - Len(p) + 1, Len(s)) = p

\* str.lower on one character; the upper-case letters of the alphabet are G, H, I, J, O, P,
\* S, T, V, Z
lower_char(c) ==
    IF c = "P" THEN "p" ELSE IF c = "V" THEN "v" ELSE IF c = "J" THEN "j"
    ELSE IF c = "G" THEN "g" ELSE IF c = "Z" THEN "z" ELSE IF c = "I" THEN "i"
    ELSE IF c = "H" THEN "h" ELSE IF c = "O" THEN "o" ELSE IF c = "S" THEN "s"
    ELSE IF c = "T" THEN "t" ELSE c

lower(s) == [i \in DOMAIN s |-> lower_char(s[i])]

(***************************************************************************)
(* pathlib: parsing, joining, resolving and containment.                   *)
(***************************************************************************)
\* str.split("/"): the pieces of s between separators, empty pieces included
RECURSIVE split_slash(_)
split_slash(s) ==
    IF \A i \in DOMAIN s : s[i] # "/" THEN <<s>>
    ELSE LET k == CHOOSE i \in DOMAIN s : s[i] = "/" /\ \A j \in 1..(i - 1) : s[j] # "/"
         IN  <<SubSeq(s, 1, k - 1)>> \o split_slash(SubSeq(s, k + 1, Len(s)))

\* PurePosixPath(s).parts without the root: empty and "." pieces are dropped, ".." is kept
path_parts(s) == SelectSeq(split_slash(s), LAMBDA c : c # <<>> /\ c # <<".">>)

is_absolute(s) == Len(s) >= 1 /\ s[1] = "/"

\* base / name, base an absolute path given by its components: an absolute name replaces base
joinpath(base, name) == IF is_absolute(name) THEN path_parts(name) ELSE base \o path_parts(name)

\* Path.resolve() on a symlink-free filesystem: ".." removes the component before it
RECURSIVE resolve_from(_, _)
resolve_from(done, rest) ==
    IF rest = <<>> THEN done
    ELSE IF Head(rest) = <<".", ".">>
         THEN resolve_from(IF done = <<>> THEN done ELSE SubSeq(done, 1, Len(done) - 1), Tail(rest))
         ELSE resolve_from(Append(done, Head(rest)), Tail(rest))

resolve(parts) == resolve_from(<<>>, parts)

\* the text of an absolute path
RECURSIVE path_str(_)
path_str(parts) == IF parts = <<>> THEN <<>> ELSE <<"/">> \o Head(parts) \o path_str(Tail(parts))

\* the containment test with str(path).startswith(str(root)) in place of relative_to
is_relative_to_by_prefix(path, root) == startswith(path_str(path), path_str(root))

\* Path.relative_to(root) does not raise: root's components are a prefix of path's
is_relative_to(path, root) == Len(path) >= Len(root) /\ SubSeq(path, 1, Len(root)) = root

\* Path.parent
parent(path) == IF path = <<>> THEN path ELSE SubSeq(path, 1, Len(path) - 1)

\* Path.suffix of the final component: from its last "." on, unless that is first or last
suffix(path) ==
    IF path = <<>> THEN <<>>
    ELSE LET name == path[Len(path)]
             dots == {i \in DOMAIN name : name[i] = "."}
         IN  IF dots = {} THEN <<>>
             ELSE LET i == CHOOSE d \in dots : \A e \in dots : e <= d
                  IN  IF i > 1 /\ i < Len(name) THEN SubSeq(name, i, Len(name)) ELSE <<>>

(***************************************************************************)
(* The inputs of one stream_extract call.                                  *)
(***************************************************************************)
\* file names (ZipInfo.filename) and MIME types as strings
n_data_json == <<"d","a","t","a",".","j","s","o","n">>
n_media_dir == <<"m","e","d","i","a","/">>
n_media_a == <<"m","e","d","i","a","/","a",".","j","p","g">>
n_media_b == <<"m","e","d","i","a","/","b",".","j","p","g">>
n_media_c == <<"m","e","d","i","a","/","c",".","e","x","e">>
n_media_d == <<"m","e","d","i","a","/","d",".","j","p","g">>
n_escape == <<".",".","/","e","x","2","/","f">>
n_dotdot == <<"m","e","d","i","a","/",".",".","/","n",".","t","x","t">>
n_abs == <<"/","t","/","e","x","/","a","b","s">>
n_video == <<"v","i","d","e","o","s","/","v",".","m","p","4">>
n_journal == <<"J",".","j","s","o","n">>
n_under == <<"d","a","t","a",".","j","s","o","n","/","x">>

s_media == <<"m","e","d","i","a">>
s_media_slash == <<"m","e","d","i","a","/">>
s_photos_slash == <<"p","h","o","t","o","s","/">>
s_videos_slash == <<"v","i","d","e","o","s","/">>
s_dot_json == <<".","j","s","o","n">>

m_jpeg == <<"i","m","a","g","e","/","j","p","e","g">>
m_mp4 == <<"v","i","d","e","o","/","m","p","4">>
m_octet == <<"a","p","p","/","o","c","t","e","t">>
m_text == <<"t","e","x","t","/","p","l","a","i","n">>

\* settings.allowed_media_types and settings.allowed_file_extensions
allowed_media_types == {m_jpeg, <<"v","i","d","e","o","/","*">>}

allowed_file_extensions == {<<".","j","p","g">>, <<".","m","p","4">>}

\* one ZipInfo with what the environment answers for the file it extracts to:
\* mime is what content sniffing detects, stat_fails whether stat() on it raises
Info(filename, file_size, mime, stat_fails) ==
    [filename |-> filename, file_size |-> file_size, mime |-> mime, stat_fails |-> stat_fails]

EntryPool ==
    { Info(n_data_json, 16, m_text, FALSE),
      Info(n_media_dir, 0, m_text, FALSE),
      Info(n_media_a, 15, m_jpeg, FALSE),
      Info(n_media_b, 1048560, m_octet, FALSE),
      Info(n_media_c, 8, m_jpeg, FALSE),
      Info(n_media_d, 15, m_jpeg, TRUE),
      Info(n_escape, 9, m_text, FALSE),
      Info(n_dotdot, 9, m_text, FALSE),
      Info(n_abs, 9, m_text, FALSE),
      Info(n_video, 15, m_mp4, FALSE),
      Info(n_journal, 16, m_text, FALSE),
      Info(n_under, 9, m_text, FALSE) }

Archives == UNION {[1..n -> EntryPool] : n \in 0..MaxEntries}

\* media_dest as a resolved absolute path: /t/md
MediaDest == << <<"t">>, <<"m","d">> >>

NoPath == << <<"/">> >>

MaxSizeMbChoices == {1}

VARIABLES
    archive,             \* zipf.infolist()
    source_type,         \* "none" (Journiv) or "dayone"
    media_dest,          \* NoPath when not supplied
    validate_media,
    progress_callback,   \* "none" or "track"
    max_size_mb,
    pc,                  \* position of the call
    idx,                 \* loop index (enumerate from 1)
    total_size,
    fs_files,            \* regular files: set of [path, by, size], by = index of the writing entry
    fs_dirs,             \* directories
    opened,              \* every open(target_path, 'wb') that succeeded: [path, by, root]
    warnings,
    warning_categories,
    undeleted,           \* entries whose cleanup raised (the exception is logged and swallowed)
    progress_calls,      \* arguments of every progress_callback invocation
    result,
    error,
    call,                \* arguments of a call of one of the other functions
    ret                  \* what that call returned

vars == <<archive, source_type, media_dest, validate_media, progress_callback, max_size_mb,
          pc, idx, total_size, fs_files, fs_dirs, opened, warnings, warning_categories,
          undeleted, progress_calls, result, error, call, ret>>

\* extract_to as a resolved absolute path: /t/ex, or the extract_to of the call that is
\* running when two calls run side by side
ExtractTo == IF call.fn = "pair" THEN call.extract_to ELSE << <<"t">>, <<"e","x">> >>

\* what a stream_extract call never changes
inputs == <<archive, source_type, media_dest, validate_media, progress_callback, max_size_mb,
            call, ret>>

\* everything a stream_extract call reads or writes
extract_state == <<archive, source_type, media_dest, validate_media, progress_callback,
                   max_size_mb, pc, idx, total_size, fs_files, fs_dirs, opened, warnings,
                   warning_categories, undeleted, progress_calls, result, error>>

NoResult == [kind |-> "none"]

NoError == [type |-> "none", raised |-> "none", cause |-> "none", name |-> <<>>]

NoCall == [fn |-> "none"]

Init ==
    /\ archive \in Archives
    /\ source_type \in {"none", "dayone"}
    /\ media_dest \in {NoPath, MediaDest}
    /\ validate_media \in BOOLEAN
    /\ progress_callback \in {"none", "track"}
    /\ max_size_mb \in MaxSizeMbChoices
    /\ pc = "start"
    /\ idx = 0
    /\ total_size = 0
    /\ fs_files = {}
    /\ fs_dirs = {<<>>}
    /\ opened = {}
    /\ warnings = <<>>
    /\ warning_categories = [c \in {} |-> 0]
    /\ undeleted = {}
    /\ progress_calls = <<>>
    /\ result = NoResult
    /\ error = NoError
    /\ call = NoCall
    /\ ret = NoCall

\* as Init, and media_dest may be a directory that exists before the call
InitPre ==
    /\ archive \in Archives
    /\ source_type \in {"none", "dayone"}
    /\ media_dest \in {NoPath, MediaDest}
    /\ validate_media \in BOOLEAN
    /\ progress_callback \in {"none", "track"}
    /\ max_size_mb \in MaxSizeMbChoices
    /\ pc = "start"
    /\ idx = 0
    /\ total_size = 0
    /\ fs_files = {}
    /\ fs_dirs \in (IF media_dest = NoPath THEN {{<<>>}}
                    ELSE {{<<>>}, {SubSeq(MediaDest, 1, n) : n \in 0..Len(MediaDest)}})
    /\ opened = {}
    /\ warnings = <<>>
    /\ warning_categories = [c \in {} |-> 0]
    /\ undeleted = {}
    /\ progress_calls = <<>>
    /\ result = NoResult
    /\ error = NoError
    /\ call = NoCall
    /\ ret = NoCall

\* as Init, with the progress callback of import_data (cli/commands/import_cmd.py),
\* which raises KeyboardInterrupt once a signal has set sig_handler.interrupted
InitCancel ==
    /\ archive \in Archives
    /\ source_type \in {"none", "dayone"}
    /\ media_dest \in {NoPath, MediaDest}
    /\ validate_media \in BOOLEAN
    /\ progress_callback = "on_extract_progress"
    /\ max_size_mb \in MaxSizeMbChoices
    /\ pc = "start"
    /\ idx = 0
    /\ total_size = 0
    /\ fs_files = {}
    /\ fs_dirs = {<<>>}
    /\ opened = {}
    /\ warnings = <<>>
    /\ warning_categories = [c \in {} |-> 0]
    /\ undeleted = {}
    /\ progress_calls = <<>>
    /\ result = NoResult
    /\ error = NoError
    /\ call = NoCall
    /\ ret = NoCall

(***************************************************************************)
(* The filesystem under the two roots.                                     *)
(***************************************************************************)
file_paths(files) == {f.path : f \in files}

\* Path.exists()
exists(files, dirs, path) == path \in dirs \/ path \in file_paths(files)

prefixes(path) == {SubSeq(path, 1, n) : n \in 0..Len(path)}

\* Path.mkdir(parents=True, exist_ok=True) does not raise: no regular file is in the way
mkdir_ok(files, path) == prefixes(path) \cap file_paths(files) = {}

mkdir(dirs, path) == dirs \cup prefixes(path)

\* open(path, 'wb') and copy: the file is created or truncated and holds the entry's bytes
write_file(files, path, by, size) ==
    {f \in files : f.path # path} \cup {[path |-> path, by |-> by, size |-> size]}

unlink_nothing(files, path) == files

\* Path.unlink()
unlink(files, path) == {f \in files : f.path # path}

(***************************************************************************)
(* MediaHandler.validate_media and what it calls.                          *)
(***************************************************************************)
\* the limit taken in kilobytes
validate_file_size_in_kb(file_size, mb) == file_size <= mb * 1024

validate_file_size(file_size, mb) == file_size <= mb * 1024 * 1024

validate_media_type(mime_type, allowed_types) ==
    /\ mime_type # <<>>
    /\ \/ mime_type \in allowed_types
       \/ (Head(split_slash(mime_type)) \o <<"/", "*">>) \in allowed_types

Outcome(is_valid, mime_type, category) ==
    [is_valid |-> is_valid, mime_type |-> mime_type, category |-> category]

m_unknown == <<"u","n","k","n","o","w","n">>

\* the MIME type tested before the size
validate_media_checks_format_first(files, dirs, file_path, info, mb, allowed_types, allowed_extensions) ==
    IF info.stat_fails THEN Outcome(FALSE, m_unknown, "error")
    ELSE IF ~exists(files, dirs, file_path) THEN Outcome(FALSE, m_unknown, "not_found")
    ELSE LET file_size == (CHOOSE f \in files : f.path = file_path).size
             file_ext == lower(suffix(file_path))
         IN  IF ~validate_media_type(info.mime, allowed_types)
             THEN Outcome(FALSE, info.mime, "format")
             ELSE IF ~validate_file_size(file_size, mb) THEN Outcome(FALSE, m_unknown, "size")
             ELSE IF allowed_extensions # {} /\ file_ext \notin allowed_extensions
                  THEN Outcome(FALSE, info.mime, "extension")
             ELSE Outcome(TRUE, info.mime, "none")

\* info stands for the environment's answers about the file at file_path
validate_media_checks(files, dirs, file_path, info, mb, allowed_types, allowed_extensions) ==
    IF info.stat_fails THEN Outcome(FALSE, m_unknown, "error")
    ELSE IF ~exists(files, dirs, file_path) THEN Outcome(FALSE, m_unknown, "not_found")
    ELSE LET file_size == (CHOOSE f \in files : f.path = file_path).size
             file_ext == lower(suffix(file_path))
         IN  IF ~validate_file_size(file_size, mb) THEN Outcome(FALSE, m_unknown, "size")
             ELSE IF ~validate_media_type(info.mime, allowed_types)
                  THEN Outcome(FALSE, info.mime, "format")
             ELSE IF allowed_extensions # {} /\ file_ext \notin allowed_extensions
                  THEN Outcome(FALSE, info.mime, "extension")
             ELSE Outcome(TRUE, info.mime, "none")

(***************************************************************************)
(* ZipHandler.stream_extract: the pieces of one loop iteration.            *)
(***************************************************************************)
is_dir_never(info) == FALSE

\* ZipInfo.is_dir()
is_dir(info) == info.filename # <<>> /\ info.filename[Len(info.filename)] = "/"

is_media_file(info, st) ==
    IF st = "dayone"
    THEN \E p \in {s_photos_slash, s_videos_slash} : startswith(lower(info.filename), p)
    ELSE startswith(info.filename, s_media_slash)

zero_copy(info, st, md) == is_media_file(info, st) /\ md # NoPath

target_dir(info, st, md) == IF zero_copy(info, st, md) THEN md ELSE ExtractTo

\* the declared name kept whole
relative_path_keep(info, st) == path_parts(info.filename)

\* Path(info.filename), or Path(info.filename).relative_to("media") for Journiv archives
relative_path(info, st) ==
    IF st = "dayone" THEN path_parts(info.filename) ELSE Tail(path_parts(info.filename))

target_path(info, st, md) ==
    IF zero_copy(info, st, md)
    THEN resolve(md \o relative_path(info, st))
    ELSE resolve(joinpath(ExtractTo, info.filename))

\* the check done on the text of the two paths
path_is_safe_by_prefix(info, st, md) ==
    is_relative_to_by_prefix(target_path(info, st, md), target_dir(info, st, md))

\* the check done on the declared name, as validate_zip_structure scans names
path_is_safe_by_markers(info, st, md) ==
    /\ ~is_absolute(info.filename)
    /\ \A i \in 1..(Len(info.filename) - 1) : SubSeq(info.filename, i, i + 1) # <<".", ".">>

\* the path traversal check passes
path_is_safe(info, st, md) == is_relative_to(target_path(info, st, md), target_dir(info, st, md))

RECURSIVE sum_file_size(_)
sum_file_size(entries) ==
    IF entries = <<>> THEN 0 ELSE Head(entries).file_size + sum_file_size(Tail(entries))

total_files(entries) == Len(entries)

too_large_at_ceiling(entries, mb) == sum_file_size(entries) >= mb * 1024 * 1024

too_large(entries, mb) == sum_file_size(entries) > mb * 1024 * 1024

display_category(category) ==
    CASE category = "size" -> "Skipped due to size"
      [] category = "format" -> "Skipped due to format"
      [] category = "extension" -> "Skipped due to extension"
      [] category = "not_found" -> "Skipped (not found)"
      [] category = "error" -> "Skipped (error)"
      [] OTHER -> "Skipped (other)"

count_warning_once(categories, label) ==
    [c \in DOMAIN categories \cup {label} |-> IF c = label THEN 1 ELSE categories[c]]

\* warning_categories[label] = warning_categories.get(label, 0) + 1
count_warning(categories, label) ==
    IF label \in DOMAIN categories
    THEN [categories EXCEPT ![label] = @ + 1]
    ELSE [c \in DOMAIN categories \cup {label} |-> IF c = label THEN 1 ELSE categories[c]]

progress_args_remaining(i, total) == <<total - i, total>>

\* progress_callback(idx, total_files)
progress_args(i, total) == <<i, total>>

after_validation_abort(is_valid) == IF is_valid THEN "progress" ELSE "failed"

\* the callback reached straight after validation, rejected or not
after_validation_keep(is_valid) == "progress"

\* a cleanup that raised ends the extraction
after_cleanup_abort(removed) == IF removed THEN "progress" ELSE "failed"

\* lines 435-448: the except clause around the removal swallows its exception
after_cleanup(removed) == "progress"

\* where the loop goes after validation: a rejected file is cleaned up, never fatal
after_validation(is_valid) == IF is_valid THEN "progress" ELSE "delete"

RECURSIVE sum_sizes(_)
sum_sizes(files) ==
    IF files = {} THEN 0
    ELSE LET f == CHOOSE g \in files : TRUE IN f.size + sum_sizes(files \ {f})

returned_total_size_on_disk(total, files) == sum_sizes(files)

\* "total_size": total_size in the returned dictionary
returned_total_size(total, files) == total

\* except clauses that catch BaseException
Raise_catching_all(raised, cause, name) ==
    [type |-> IF raised = "BadZipFile" THEN "ValueError" ELSE "IOError",
     raised |-> raised, cause |-> cause, name |-> name]

\* the except clauses of stream_extract: BadZipFile becomes ValueError, every other
\* Exception raised inside the try block (ValueError included) becomes IOError, and
\* KeyboardInterrupt, which is no Exception, passes through
Raise(raised, cause, name) ==
    [type |-> IF raised = "BadZipFile" THEN "ValueError"
              ELSE IF raised = "KeyboardInterrupt" THEN "KeyboardInterrupt"
              ELSE "IOError",
     raised |-> raised, cause |-> cause, name |-> name]

(***************************************************************************)
(* ZipHandler.stream_extract as a process.                                 *)
(***************************************************************************)
info_at(i) == archive[i]

Fail(e) == pc' = "failed" /\ error' = e

\* lines 332-357: open the archive, test it, check the total size, make extract_to
Begin ==
    /\ pc = "start"
    /\ \E is_zip \in BOOLEAN, bad_file \in 0..Len(archive) :
          IF ~is_zip
          THEN /\ Fail(Raise("BadZipFile", "invalid_zip", <<>>))
               /\ UNCHANGED <<total_size, fs_dirs>>
          ELSE IF bad_file # 0
          THEN /\ Fail(Raise("ValueError", "corrupted", <<>>))
               /\ UNCHANGED <<total_size, fs_dirs>>
          ELSE IF too_large(archive, max_size_mb)
          THEN /\ Fail(Raise("ValueError", "too_large", <<>>))
               /\ total_size' = sum_file_size(archive)
               /\ UNCHANGED fs_dirs
          ELSE IF ~mkdir_ok(fs_files, ExtractTo)
          THEN /\ Fail(Raise("FileExistsError", "os_error", <<>>))
               /\ total_size' = sum_file_size(archive)
               /\ UNCHANGED fs_dirs
          ELSE /\ pc' = "loop"
               /\ total_size' = sum_file_size(archive)
               /\ fs_dirs' = mkdir(fs_dirs, ExtractTo)
               /\ UNCHANGED error
    /\ UNCHANGED <<inputs, idx, fs_files, opened, warnings, warning_categories, undeleted,
                   progress_calls, result>>

\* line 360-363: the for statement takes the next entry and skips a directory entry
NextEntry ==
    /\ pc = "loop"
    /\ idx' = idx + 1
    /\ pc' = IF idx + 1 > Len(archive) THEN "finish"
             ELSE IF is_dir(info_at(idx + 1)) THEN "loop"
             ELSE "check"
    /\ UNCHANGED <<inputs, total_size, fs_files, fs_dirs, opened, warnings, warning_categories,
                   undeleted, progress_calls, result, error>>

\* lines 365-393: choose the destination, resolve the target, path traversal check
CheckPath ==
    /\ pc = "check"
    /\ IF path_is_safe(info_at(idx), source_type, media_dest)
       THEN pc' = "write" /\ UNCHANGED error
       ELSE Fail(Raise("ValueError", "unsafe_path", info_at(idx).filename))
    /\ UNCHANGED <<inputs, idx, total_size, fs_files, fs_dirs, opened, warnings,
                   warning_categories, undeleted, progress_calls, result>>

\* lines 395-399: make the parent directories, open the target for writing, copy the entry
WriteEntry ==
    /\ pc = "write"
    /\ LET info == info_at(idx)
           target == target_path(info, source_type, media_dest)
       IN  IF ~mkdir_ok(fs_files, parent(target))
           THEN /\ Fail(Raise("FileExistsError", "os_error", info.filename))
                /\ UNCHANGED <<fs_files, fs_dirs, opened>>
           ELSE IF target \in mkdir(fs_dirs, parent(target))
           THEN /\ Fail(Raise("IsADirectoryError", "os_error", info.filename))
                /\ fs_dirs' = mkdir(fs_dirs, parent(target))
                /\ UNCHANGED <<fs_files, opened>>
           ELSE /\ fs_dirs' = mkdir(fs_dirs, parent(target))
                /\ fs_files' = write_file(fs_files, target, idx, info.file_size)
                /\ opened' = opened \cup {[path |-> target, by |-> idx,
                                           root |-> target_dir(info, source_type, media_dest)]}
                /\ pc' = IF is_media_file(info, source_type) /\ validate_media
                         THEN "validate" ELSE "progress"
                /\ UNCHANGED error
    /\ UNCHANGED <<inputs, idx, total_size, warnings, warning_categories, undeleted,
                   progress_calls, result>>

\* lines 401-433: validate the file just written; a rejection is recorded as a warning
ValidateEntry ==
    /\ pc = "validate"
    /\ LET info == info_at(idx)
           target == target_path(info, source_type, media_dest)
           outcome == validate_media_checks(fs_files, fs_dirs, target, info, max_size_mb,
                                            allowed_media_types, allowed_file_extensions)
       IN  /\ pc' = after_validation(outcome.is_valid)
           /\ IF outcome.is_valid
              THEN UNCHANGED <<warnings, warning_categories>>
              ELSE /\ warnings' = Append(warnings, [by |-> idx, filename |-> info.filename,
                                                    category |-> outcome.category])
                   /\ warning_categories' =
                          count_warning(warning_categories, display_category(outcome.category))
    /\ UNCHANGED <<inputs, idx, total_size, fs_files, fs_dirs, opened, undeleted,
                   progress_calls, result, error>>

\* lines 435-444: remove the rejected file; an exception here is logged and swallowed
DeleteRejected ==
    /\ pc = "delete"
    /\ LET info == info_at(idx)
           target == target_path(info, source_type, media_dest)
       IN  IF info.stat_fails
           THEN \* target_path.exists() raises
                /\ undeleted' = undeleted \cup {idx}
                /\ UNCHANGED fs_files
           ELSE IF ~exists(fs_files, fs_dirs, target)
           THEN UNCHANGED <<fs_files, undeleted>>
           ELSE \E unlinked \in BOOLEAN :
                    IF unlinked
                    THEN fs_files' = unlink(fs_files, target) /\ UNCHANGED undeleted
                    ELSE undeleted' = undeleted \cup {idx} /\ UNCHANGED fs_files
    /\ pc' = after_cleanup(idx \notin undeleted')
    /\ UNCHANGED <<inputs, idx, total_size, fs_dirs, opened, warnings, warning_categories,
                   progress_calls, result, error>>

\* lines 446-448: report progress
ReportProgress ==
    /\ pc = "progress"
    /\ progress_calls' = IF progress_callback = "none" THEN progress_calls
                         ELSE Append(progress_calls, progress_args(idx, total_files(archive)))
    /\ \E interrupted \in (IF progress_callback = "on_extract_progress" THEN BOOLEAN ELSE {FALSE}) :
          IF interrupted
          THEN Fail(Raise("KeyboardInterrupt", "callback", <<>>))
          ELSE pc' = "loop" /\ UNCHANGED error
    /\ UNCHANGED <<inputs, idx, total_size, fs_files, fs_dirs, opened, warnings,
                   warning_categories, undeleted, result>>

\* extract_to.glob("*.json"): the children of extract_to whose name ends in .json
root_json_files(files, dirs) ==
    {p \in file_paths(files) \cup dirs :
        /\ Len(p) = Len(ExtractTo) + 1
        /\ parent(p) = ExtractTo
        /\ endswith(p[Len(p)], s_dot_json)}

\* media_dest whenever it was supplied
media_dir_when_supplied(files, dirs, st, md) ==
    IF md # NoPath THEN md
    ELSE IF st = "dayone" THEN ExtractTo ELSE Append(ExtractTo, s_media)

\* lines 456-466: the staging media location, replaced by media_dest when that exists
media_dir_of(files, dirs, st, md) ==
    IF md # NoPath /\ exists(files, dirs, md) THEN md
    ELSE IF st = "dayone" THEN ExtractTo ELSE Append(ExtractTo, s_media)

\* lines 455-480: locate the data file and the media directory, return the result
Finish ==
    /\ pc = "finish"
    /\ LET json_files == root_json_files(fs_files, fs_dirs)
           media_dir == media_dir_of(fs_files, fs_dirs, source_type, media_dest)
       IN  IF source_type = "dayone" /\ json_files = {}
           THEN Fail(Raise("ValueError", "missing_json", <<>>)) /\ UNCHANGED result
           ELSE \E data_file \in (IF source_type = "dayone" THEN json_files
                                  ELSE {Append(ExtractTo, n_data_json)}) :
                    IF ~exists(fs_files, fs_dirs, data_file)
                    THEN Fail(Raise("ValueError", "data_not_found", <<>>)) /\ UNCHANGED result
                    ELSE /\ pc' = "done"
                         /\ result' = [kind |-> "result",
                                       data_file |-> data_file,
                                       media_dir |-> IF exists(fs_files, fs_dirs, media_dir)
                                                     THEN media_dir ELSE NoPath,
                                       total_size |-> returned_total_size(total_size, fs_files),
                                       file_count |-> Len(archive),
                                       warnings |-> warnings,
                                       warning_categories |-> warning_categories]
                         /\ UNCHANGED error
    /\ UNCHANGED <<inputs, idx, total_size, fs_files, fs_dirs, opened, warnings,
                   warning_categories, undeleted, progress_calls>>

Next ==
    \/ Begin
    \/ NextEntry
    \/ CheckPath
    \/ WriteEntry
    \/ ValidateEntry
    \/ DeleteRejected
    \/ ReportProgress
    \/ Finish

Spec == Init /\ [][Next]_vars

SpecPre == InitPre /\ [][Next]_vars

SpecCancel == InitCancel /\ [][Next]_vars

(***************************************************************************)
(* Two stream_extract calls running side by side on one filesystem, and    *)
(* then one of them run again alone on a filesystem of its own.  The       *)
(* variables of the call hold the call that is running (call.active);      *)
(* ret.saved holds the local variables of the calls that are not, ret.fs   *)
(* the filesystem that is not in use.  Calls 1 and 2 are the concurrent    *)
(* ones, call 3 repeats call.replay_of alone.                              *)
(***************************************************************************)
\* one root for every call
StagingRoots_shared(p) ==
    [extract_to |-> << <<"t">>, <<"e","x">> >>, media_dest |-> MediaDest]

\* the extract_to and media_dest arguments of call p: /t/ex and /t/md, /t/e2 and /t/m2
StagingRoots(p) ==
    IF p = 1 THEN [extract_to |-> << <<"t">>, <<"e","x">> >>, media_dest |-> MediaDest]
    ELSE [extract_to |-> << <<"t">>, <<"e","2">> >>, media_dest |-> << <<"t">>, <<"m","2">> >>]

\* the roots of the call the variables hold
roots_of(p, replay_of) == StagingRoots(IF p = 3 THEN replay_of ELSE p)

PairArchives ==
    { << Info(n_data_json, 16, m_text, FALSE), Info(n_media_a, 15, m_jpeg, FALSE) >>,
      << Info(n_media_c, 8, m_jpeg, FALSE), Info(n_data_json, 16, m_text, FALSE) >>,
      << Info(n_data_json, 16, m_text, FALSE), Info(n_escape, 9, m_text, FALSE) >>,
      << Info(n_media_a, 15, m_jpeg, FALSE) >> }

\* the arguments of call p
PairInputs(p) ==
    [archive : PairArchives, source_type : {"none", "dayone"},
     media_dest : {NoPath, StagingRoots(p).media_dest}, validate_media : {TRUE},
     progress_callback : {"track"}, max_size_mb : MaxSizeMbChoices]

\* the local variables of a call that has not started
fresh_call(in) ==
    [archive |-> in.archive, source_type |-> in.source_type, media_dest |-> in.media_dest,
     validate_media |-> in.validate_media, progress_callback |-> in.progress_callback,
     max_size_mb |-> in.max_size_mb, pc |-> "start", idx |-> 0, total_size |-> 0,
     opened |-> {}, warnings |-> <<>>, warning_categories |-> [c \in {} |-> 0],
     undeleted |-> {}, progress_calls |-> <<>>, result |-> NoResult, error |-> NoError]

\* the local variables of the call that is running
running_call ==
    [archive |-> archive, source_type |-> source_type, media_dest |-> media_dest,
     validate_media |-> validate_media, progress_callback |-> progress_callback,
     max_size_mb |-> max_size_mb, pc |-> pc, idx |-> idx, total_size |-> total_size,
     opened |-> opened, warnings |-> warnings, warning_categories |-> warning_categories,
     undeleted |-> undeleted, progress_calls |-> progress_calls, result |-> result,
     error |-> error]

Running == [pc |-> "running"]

InitPair ==
    \E in1 \in PairInputs(1), in2 \in PairInputs(2), replay_of \in {1, 2} :
        /\ archive = in1.archive
        /\ source_type = in1.source_type
        /\ media_dest = in1.media_dest
        /\ validate_media = in1.validate_media
        /\ progress_callback = in1.progress_callback
        /\ max_size_mb = in1.max_size_mb
        /\ pc = "start"
        /\ idx = 0
        /\ total_size = 0
        /\ fs_files = {}
        /\ fs_dirs = {<<>>}
        /\ opened = {}
        /\ warnings = <<>>
        /\ warning_categories = [c \in {} |-> 0]
        /\ undeleted = {}
        /\ progress_calls = <<>>
        /\ result = NoResult
        /\ error = NoError
        /\ call = [fn |-> "pair", active |-> 1, replay_of |-> replay_of,
                   extract_to |-> StagingRoots(1).extract_to]
        /\ ret = [fn |-> "pair",
                  saved |-> [p \in 1..3 |->
                                IF p = 1 THEN Running
                                ELSE IF p = 2 THEN fresh_call(in2)
                                ELSE fresh_call(IF replay_of = 1 THEN in1 ELSE in2)],
                  fs |-> [files |-> {}, dirs |-> {<<>>}]]

\* the scheduler lets call q run: one of the concurrent calls while it has steps left,
\* the repetition once both have ended
Switch(q) ==
    /\ call.fn = "pair"
    /\ call.active \in {1, 2}
    /\ q # call.active
    /\ ret.saved[q].pc \notin {"done", "failed"}
    /\ q = 3 => /\ pc \in {"done", "failed"}
                /\ ret.saved[3 - call.active].pc \in {"done", "failed"}
    /\ LET s == ret.saved[q]
       IN  /\ archive' = s.archive
           /\ source_type' = s.source_type
           /\ media_dest' = s.media_dest
           /\ validate_media' = s.validate_media
           /\ progress_callback' = s.progress_callback
           /\ max_size_mb' = s.max_size_mb
           /\ pc' = s.pc
           /\ idx' = s.idx
           /\ total_size' = s.total_size
           /\ opened' = s.opened
           /\ warnings' = s.warnings
           /\ warning_categories' = s.warning_categories
           /\ undeleted' = s.undeleted
           /\ progress_calls' = s.progress_calls
           /\ result' = s.result
           /\ error' = s.error
    /\ call' = [call EXCEPT !.active = q,
                            !.extract_to = roots_of(q, call.replay_of).extract_to]
    /\ IF q = 3
       THEN /\ fs_files' = ret.fs.files
            /\ fs_dirs' = ret.fs.dirs
            /\ ret' = [ret EXCEPT !.saved[call.active] = running_call, !.saved[q] = Running,
                                  !.fs = [files |-> fs_files, dirs |-> fs_dirs]]
       ELSE /\ ret' = [ret EXCEPT !.saved[call.active] = running_call, !.saved[q] = Running]
            /\ UNCHANGED <<fs_files, fs_dirs>>

NextPair ==
    \/ Begin
    \/ NextEntry
    \/ CheckPath
    \/ WriteEntry
    \/ ValidateEntry
    \/ DeleteRejected
    \/ ReportProgress
    \/ Finish
    \/ \E q \in 1..3 : Switch(q)

SpecPair == InitPair /\ [][NextPair]_vars

(***************************************************************************)
(* A stream_extract call into roots that already hold files: call.existing *)
(* is what was on disk when the call started (by = 0: written by no entry  *)
(* of this call).                                                          *)
(***************************************************************************)
ExistingFiles ==
    { [path |-> Append(StagingRoots(1).extract_to, n_data_json), by |-> 0, size |-> 99],
      [path |-> Append(MediaDest, <<"a",".","j","p","g">>), by |-> 0, size |-> 99],
      [path |-> Append(MediaDest, <<"c",".","e","x","e">>), by |-> 0, size |-> 99] }

InitExisting ==
    /\ archive \in PairArchives
    /\ source_type \in {"none", "dayone"}
    /\ media_dest \in {NoPath, MediaDest}
    /\ validate_media \in BOOLEAN
    /\ progress_callback \in {"none", "track"}
    /\ max_size_mb \in MaxSizeMbChoices
    /\ pc = "start"
    /\ idx = 0
    /\ total_size = 0
    /\ fs_files \in SUBSET ExistingFiles
    /\ fs_dirs = {<<>>} \cup UNION {prefixes(parent(f.path)) : f \in fs_files}
    /\ opened = {}
    /\ warnings = <<>>
    /\ warning_categories = [c \in {} |-> 0]
    /\ undeleted = {}
    /\ progress_calls = <<>>
    /\ result = NoResult
    /\ error = NoError
    /\ call = [fn |-> "stream_extract", existing |-> fs_files]
    /\ ret = NoCall

SpecExisting == InitExisting /\ [][Next]_vars

(***************************************************************************)
(* MediaHandler.validate_media called on its own.                          *)
(***************************************************************************)
\* a stream_extract call is not in progress
Idle ==
    /\ archive = <<>>
    /\ source_type = "none"
    /\ media_dest = NoPath
    /\ validate_media = FALSE
    /\ progress_callback = "none"
    /\ max_size_mb = 1
    /\ pc = "idle"
    /\ idx = 0
    /\ total_size = 0
    /\ fs_files = {}
    /\ fs_dirs = {<<>>}
    /\ opened = {}
    /\ warnings = <<>>
    /\ warning_categories = [c \in {} |-> 0]
    /\ undeleted = {}
    /\ progress_calls = <<>>
    /\ result = NoResult
    /\ error = NoError

\* the files validate_media is called on: suffix in lower case, in upper case, other, none
MediaPaths ==
    {<<<<"t">>, name>> : name \in {<<"a",".","j","p","g">>, <<"a",".","J","P","G">>,
                                   <<"a",".","e","x","e">>, <<"a">>}}

\* st_size of the file, or -1 when there is no file at the path
MediaSizes == {-1, 15, 1024 * 1024, 1024 * 1024 + 1}

AllowedTypesChoices == {{}, {m_jpeg}, {<<"i","m","a","g","e","/","*">>}, allowed_media_types}

AllowedExtensionsChoices ==
    {{}, {<<".","j","p","g">>}, {<<".","J","P","G">>}, allowed_file_extensions}

ValidateMediaCalls ==
    [fn : {"validate_media"},
     file_path : MediaPaths,
     st_size : MediaSizes,
     mime : {m_jpeg, m_mp4, m_octet},
     stat_fails : BOOLEAN,
     max_size_mb : MaxSizeMbChoices,
     allowed_types : AllowedTypesChoices,
     allowed_extensions : AllowedExtensionsChoices]

InitValidate ==
    /\ Idle
    /\ call \in ValidateMediaCalls
    /\ ret = NoCall

\* lines 257-298: one call of validate_media on the file system the call describes
ValidateMedia ==
    /\ call.fn = "validate_media"
    /\ ret.fn = "none"
    /\ LET files == IF call.st_size < 0 THEN {}
                    ELSE write_file({}, call.file_path, 0, call.st_size)
           dirs == prefixes(parent(call.file_path))
           info == Info(<<>>, 0, call.mime, call.stat_fails)
           outcome == validate_media_checks(files, dirs, call.file_path, info, call.max_size_mb,
                                            call.allowed_types, call.allowed_extensions)
       IN  ret' = [fn |-> "validate_media", is_valid |-> outcome.is_valid,
                   mime_type |-> outcome.mime_type, category |-> outcome.category]
    /\ UNCHANGED <<extract_state, call>>

NextValidate == ValidateMedia

SpecValidate == InitValidate /\ [][NextValidate]_vars

(***************************************************************************)
(* import_data (cli/commands/import_cmd.py) from the creation of the       *)
(* import job to the end of the command, under GracefulInterruptHandler    *)
(* (cli/commands/signal_handler.py), with SIGINT and SIGTERM arriving at   *)
(* any position.  ret holds the state: the position pc, the job (created,  *)
(* and the marks made on it in order), the handler object and the signal   *)
(* dispositions of the process, the exception in flight and the exit code. *)
(* The original dispositions are Python's: SIGINT raises KeyboardInterrupt *)
(* at the position reached, SIGTERM ends the process at once.              *)
(***************************************************************************)
MaxSignals == 2

MaxCallbacks == 2

NoExit == -1

\* an exception e raised at the position of s: inside the with block it reaches __exit__,
\* inside __enter__ or __exit__ it leaves them at once, elsewhere it reaches the except
\* clauses of import_data
raise_at(s, e) ==
    IF s.pc \in {"extract", "import", "mark_completed"}
    THEN [s EXCEPT !.pc = "exit_49", !.exc = e]
    ELSE [s EXCEPT !.pc = "except", !.exc = e]

\* a second signal treated like the first
signal_handler_never_quits(s) == [s EXCEPT !.interrupted = TRUE]

\* GracefulInterruptHandler._signal_handler
signal_handler(s) ==
    IF ~s.interrupted THEN [s EXCEPT !.interrupted = TRUE]
    ELSE raise_at(s, "SystemExit")

\* what the arrival of sig does, by the disposition of sig
deliver(s, sig) ==
    IF (IF sig = "SIGINT" THEN s.sigint ELSE s.sigterm) = "graceful" THEN signal_handler(s)
    ELSE IF sig = "SIGINT" THEN raise_at(s, "KeyboardInterrupt")
    ELSE [s EXCEPT !.pc = "exited", !.exit_code = 143]

\* on_extract_progress and on_import_progress: raise when the flag is set
on_progress(s) ==
    IF s.interrupted THEN raise_at(s, "KeyboardInterrupt")
    ELSE [s EXCEPT !.callbacks = @ + 1]

\* the except clauses of import_data, and SystemExit, which none of them catches
exit_code_of(exc) ==
    CASE exc = "KeyboardInterrupt" -> 130
      [] exc = "Exception" -> 4
      [] exc = "SystemExit" -> 1
      [] OTHER -> 0

InitImport ==
    /\ Idle
    /\ call = [fn |-> "import_data"]
    /\ ret = [fn |-> "import_data", pc |-> "create_job", job |-> FALSE, marks |-> <<>>,
              interrupted |-> FALSE, sigint |-> "original", sigterm |-> "original",
              exc |-> "none", entered |-> FALSE, cleanup_ran |-> FALSE,
              exit_code |-> NoExit, signals |-> 0, callbacks |-> 0]

Step(s) == ret' = s /\ UNCHANGED <<extract_state, call>>

\* a signal arrives while the command runs
Signal ==
    /\ call.fn = "import_data"
    /\ ret.pc # "exited"
    /\ ret.signals < MaxSignals
    /\ \E sig \in {"SIGINT", "SIGTERM"} :
          Step(deliver([ret EXCEPT !.signals = @ + 1], sig))

\* lines 134-143
CreateJob ==
    /\ call.fn = "import_data"
    /\ ret.pc = "create_job"
    /\ Step([ret EXCEPT !.pc = "enter_42", !.job = TRUE])

\* GracefulInterruptHandler.__enter__, one signal.signal call at a time
Enter ==
    /\ call.fn = "import_data"
    /\ \/ /\ ret.pc = "enter_42"
          /\ Step([ret EXCEPT !.pc = "enter_43", !.sigint = "graceful"])
       \/ /\ ret.pc = "enter_43"
          /\ Step([ret EXCEPT !.pc = "extract", !.sigterm = "graceful", !.entered = TRUE])

\* lines 180-187: stream_extract calls the progress callback, fails, or returns
Extract ==
    /\ call.fn = "import_data"
    /\ ret.pc = "extract"
    /\ \/ ret.callbacks < MaxCallbacks /\ Step(on_progress(ret))
       \/ Step(raise_at(ret, "Exception"))
       \/ Step([ret EXCEPT !.pc = "import"])

\* lines 195-243: the import service calls the progress callback, fails, or returns
Import ==
    /\ call.fn = "import_data"
    /\ ret.pc = "import"
    /\ \/ ret.callbacks < MaxCallbacks /\ Step(on_progress(ret))
       \/ Step(raise_at(ret, "Exception"))
       \/ Step([ret EXCEPT !.pc = "mark_completed"])

\* lines 245-249
MarkCompleted ==
    /\ call.fn = "import_data"
    /\ ret.pc = "mark_completed"
    /\ Step([ret EXCEPT !.pc = "exit_49", !.marks = Append(@, "completed")])

\* GracefulInterruptHandler.__exit__: restore the dispositions, then decide on the cleanup
Exit ==
    /\ call.fn = "import_data"
    /\ \/ /\ ret.pc = "exit_49"
          /\ Step([ret EXCEPT !.pc = "exit_50", !.sigint = "original"])
       \/ /\ ret.pc = "exit_50"
          /\ Step([ret EXCEPT !.pc = "exit_53", !.sigterm = "original"])
       \/ /\ ret.pc = "exit_53"
          /\ Step([ret EXCEPT !.pc = IF ret.interrupted THEN "cleanup"
                                     ELSE IF ret.exc = "none" THEN "summary" ELSE "except"])

\* import_data.cleanup, lines 146-152, called from __exit__ line 55
Cleanup ==
    /\ call.fn = "import_data"
    /\ ret.pc = "cleanup"
    /\ Step([ret EXCEPT !.pc = IF ret.exc = "none" THEN "summary" ELSE "except",
                        !.marks = Append(@, "failed"), !.cleanup_ran = TRUE])

\* lines 251-254
Summary ==
    /\ call.fn = "import_data"
    /\ ret.pc = "summary"
    /\ Step([ret EXCEPT !.pc = "exited", !.exit_code = 0])

\* lines 256-266
Except ==
    /\ call.fn = "import_data"
    /\ ret.pc = "except"
    /\ Step([ret EXCEPT !.pc = "exited", !.exit_code = exit_code_of(ret.exc)])

NextImport ==
    \/ Signal
    \/ CreateJob
    \/ Enter
    \/ Extract
    \/ Import
    \/ MarkCompleted
    \/ Exit
    \/ Cleanup
    \/ Summary
    \/ Except

SpecImport == InitImport /\ [][NextImport]_vars

(***************************************************************************)
(* UploadManager.process_upload.  A call gives the file name, the sizes of *)
(* the chunks the upload yields, what validate_zip_structure answers for   *)
(* the saved file, and the faults of the environment: mkdir of the upload  *)
(* directory raising, the read or write of chunk io_fault raising (0 for   *)
(* none), unlink raising.                                                  *)
(***************************************************************************)
s_dot_zip == <<".","z","i","p">>

UploadOutcome(raised, status, dir_made, file_exists, written) ==
    [raised |-> raised, status |-> status, dir_made |-> dir_made,
     file_exists |-> file_exists, written |-> written]

\* lines 123-138: an Exception inside the try is answered by removing the file and a 500;
\* an exception raised by that removal leaves the handler as it is
unexpected_error(c, written) ==
    IF c.unlink_fault THEN UploadOutcome("OSError", 0, TRUE, TRUE, written)
    ELSE UploadOutcome("HTTPException", 500, TRUE, FALSE, 0)

\* lines 86-114: remove the saved file and raise the HTTP error
reject_upload(c, status, written) ==
    IF c.unlink_fault THEN unexpected_error(c, written)
    ELSE UploadOutcome("HTTPException", status, TRUE, FALSE, 0)

\* lines 60-84 from chunk k on: total (total_size) counts the chunks read, written those saved
RECURSIVE save_chunks(_, _, _, _)
save_chunks(c, k, total, written) ==
    IF k > Len(c.chunks) THEN [too_large |-> FALSE, fault |-> FALSE, written |-> written]
    ELSE IF c.io_fault = k THEN [too_large |-> FALSE, fault |-> TRUE, written |-> written]
    ELSE IF ~validate_file_size(total + c.chunks[k], c.max_size_mb)
         THEN [too_large |-> TRUE, fault |-> FALSE, written |-> written]
    ELSE save_chunks(c, k + 1, total + c.chunks[k], written + c.chunks[k])

\* lines 33-138
process_upload(c) ==
    IF c.filename = <<>> \/ ~endswith(lower(c.filename), s_dot_zip)
    THEN UploadOutcome("HTTPException", 400, FALSE, FALSE, 0)
    ELSE IF c.mkdir_fault THEN UploadOutcome("OSError", 0, FALSE, FALSE, 0)
    ELSE LET saved == save_chunks(c, 1, 0, 0)
         IN  IF saved.fault THEN unexpected_error(c, saved.written)
             ELSE IF saved.too_large THEN reject_upload(c, 413, saved.written)
             ELSE IF ~c.valid THEN reject_upload(c, 400, saved.written)
             ELSE UploadOutcome("none", 0, TRUE, TRUE, saved.written)

UploadNames ==
    {<<"a",".","z","i","p">>, <<"a",".","Z","I","P">>, <<"a",".","j","p","g">>, <<>>}

\* the upload read in chunks of at most 1024 * 1024 bytes
UploadChunks == UNION {[1..n -> {5, 1024 * 1024}] : n \in 0..2}

InitUpload ==
    /\ Idle
    /\ call \in [fn : {"process_upload"}, filename : UploadNames, chunks : UploadChunks,
                  max_size_mb : MaxSizeMbChoices, valid : BOOLEAN, mkdir_fault : BOOLEAN,
                  io_fault : 0..2, unlink_fault : BOOLEAN]
    /\ ret = NoCall

ProcessUpload ==
    /\ call.fn = "process_upload"
    /\ ret.fn = "none"
    /\ ret' = [fn |-> "process_upload", outcome |-> process_upload(call)]
    /\ UNCHANGED <<extract_state, call>>

NextUpload == ProcessUpload

SpecUpload == InitUpload /\ [][NextUpload]_vars

(***************************************************************************)
(* The save loop of process_upload, one iteration at a time.  ret holds    *)
(* the loop's variables: k the chunk to read next, total_size, the bytes   *)
(* written to the upload file so far, too_large, and whether the loop is   *)
(* still running.  call.executor says which of the two loops runs: the one *)
(* reading file.file in an executor or the async fallback.                 *)
(***************************************************************************)
MaxChunks == 3

\* the fallback loop writing the chunk before the check
save_chunk_fallback_unchecked(s, chunk, mb, executor) ==
    IF executor
    THEN IF ~validate_file_size(s.total_size + chunk, mb)
         THEN [s EXCEPT !.total_size = @ + chunk, !.too_large = TRUE, !.running = FALSE]
         ELSE [s EXCEPT !.total_size = @ + chunk, !.written = @ + chunk, !.k = @ + 1]
    ELSE IF ~validate_file_size(s.total_size + chunk, mb)
         THEN [s EXCEPT !.total_size = @ + chunk, !.written = @ + chunk, !.too_large = TRUE,
                        !.running = FALSE]
         ELSE [s EXCEPT !.total_size = @ + chunk, !.written = @ + chunk, !.k = @ + 1]

\* lines 66-73 (executor) and 76-84 (fallback): one chunk read, counted, checked, written
save_chunk(s, chunk, mb, executor) ==
    IF executor
    THEN IF ~validate_file_size(s.total_size + chunk, mb)
         THEN [s EXCEPT !.total_size = @ + chunk, !.too_large = TRUE, !.running = FALSE]
         ELSE [s EXCEPT !.total_size = @ + chunk, !.written = @ + chunk, !.k = @ + 1]
    ELSE IF ~validate_file_size(s.total_size + chunk, mb)
         THEN [s EXCEPT !.total_size = @ + chunk, !.too_large = TRUE, !.running = FALSE]
         ELSE [s EXCEPT !.total_size = @ + chunk, !.written = @ + chunk, !.k = @ + 1]

\* the upload as the chunks read() returns: none longer than 1024 * 1024 bytes
SaveChunks == UNION {[1..n -> {5, 512 * 1024, 1024 * 1024}] : n \in 0..MaxChunks}

InitSave ==
    /\ Idle
    /\ call \in [fn : {"save_upload"}, chunks : SaveChunks, max_size_mb : MaxSizeMbChoices,
                  executor : BOOLEAN]
    /\ ret = [fn |-> "save_upload", k |-> 1, total_size |-> 0, written |-> 0,
              too_large |-> FALSE, running |-> TRUE]

\* one iteration of the loop that finds a chunk
ReadChunk ==
    /\ call.fn = "save_upload"
    /\ ret.running
    /\ ret.k <= Len(call.chunks)
    /\ ret' = save_chunk(ret, call.chunks[ret.k], call.max_size_mb, call.executor)
    /\ UNCHANGED <<extract_state, call>>

\* read() returns no chunk: the loop ends
EndOfUpload ==
    /\ call.fn = "save_upload"
    /\ ret.running
    /\ ret.k > Len(call.chunks)
    /\ ret' = [ret EXCEPT !.running = FALSE]
    /\ UNCHANGED <<extract_state, call>>

NextSave == ReadChunk \/ EndOfUpload

SpecSave == InitSave /\ [][NextSave]_vars

(***************************************************************************)
(* ZipHandler.extract_zip, on an archive that opens and passes testzip(),  *)
(* into an empty file system: what it raises or returns and what it leaves *)
(* on disk.                                                                *)
(***************************************************************************)
\* ZipFile._extract_member: extract_to joined with the name's pieces other than "", ".", ".."
member_path(info) ==
    ExtractTo \o SelectSeq(split_slash(info.filename),
                           LAMBDA c : c \notin {<<>>, <<".">>, <<".", ".">>})

\* ZipFile.extractall(extract_to) from member i on: directories are made for directory
\* entries, files are written, and the first OSError ends it
RECURSIVE extractall(_, _, _, _)
extractall(entries, i, files, dirs) ==
    IF i > Len(entries) THEN [ok |-> TRUE, files |-> files, dirs |-> dirs]
    ELSE LET info == entries[i]
             target == member_path(info)
         IN  IF ~mkdir_ok(files, parent(target))
             THEN [ok |-> FALSE, files |-> files, dirs |-> dirs]
             ELSE LET made == mkdir(dirs, parent(target))
                  IN  IF is_dir(info)
                      THEN IF target \in file_paths(files)
                           THEN [ok |-> FALSE, files |-> files, dirs |-> made]
                           ELSE extractall(entries, i + 1, files, made \cup {target})
                      ELSE IF target \in made
                           THEN [ok |-> FALSE, files |-> files, dirs |-> made]
                           ELSE extractall(entries, i + 1,
                                           write_file(files, target, i, info.file_size), made)

ExtractZipError(cause, files, dirs) ==
    [kind |-> "error", type |-> Raise("ValueError", cause, <<>>).type, cause |-> cause,
     files |-> files, dirs |-> dirs]

\* lines 127-193; data_files holds the candidates for data_file (any root .json for Day One)
extract_zip(entries, st, mb) ==
    IF too_large(entries, mb) THEN ExtractZipError("too_large", {}, {<<>>})
    ELSE IF \E i \in DOMAIN entries :
               ~is_relative_to(resolve(joinpath(ExtractTo, entries[i].filename)), ExtractTo)
    THEN ExtractZipError("unsafe_path", {}, mkdir({<<>>}, ExtractTo))
    ELSE LET x == extractall(entries, 1, {}, mkdir({<<>>}, ExtractTo))
             json_files == root_json_files(x.files, x.dirs)
             data_files == IF st = "dayone" THEN json_files ELSE {Append(ExtractTo, n_data_json)}
             media_dir == IF st = "dayone" THEN ExtractTo ELSE Append(ExtractTo, s_media)
         IN  IF ~x.ok THEN ExtractZipError("os_error", x.files, x.dirs)
             ELSE IF data_files = {} THEN ExtractZipError("missing_json", x.files, x.dirs)
             ELSE IF \E d \in data_files : ~exists(x.files, x.dirs, d)
             THEN ExtractZipError("data_not_found", x.files, x.dirs)
             ELSE [kind |-> "result", data_files |-> data_files,
                   media_dir |-> IF exists(x.files, x.dirs, media_dir) THEN media_dir ELSE NoPath,
                   total_size |-> sum_file_size(entries), file_count |-> Len(entries),
                   files |-> x.files, dirs |-> x.dirs]

(***************************************************************************)
(* create_throttled_progress_callback: call holds the arguments and the    *)
(* progress the job had when the callback was made, ret the job record     *)
(* and the variables of the closure.                                       *)
(***************************************************************************)
MaxItems == 3

\* start_progress + int(ratio * progress_range), for processed >= 0 and total > 0
calculated_progress(processed, total, start_progress, end_progress) ==
    start_progress + ((processed * (end_progress - start_progress)) \div total)

\* job.progress or start_progress
progress_or(progress, start_progress) == IF progress = 0 THEN start_progress ELSE progress

\* the calculated progress taken whatever the job's progress is
new_progress_calculated(current, calculated, end_progress) ==
    IF calculated < end_progress THEN calculated ELSE end_progress

\* lines 53-56: min(max(current_progress, calculated_progress), end_progress)
new_progress(current, calculated, end_progress) ==
    LET raised == IF current > calculated THEN current ELSE calculated
    IN  IF raised < end_progress THEN raised ELSE end_progress

\* a commit only every commit_interval entries or percentage_threshold points
should_commit_throttled_only(processed, total, new, last_progress, last_percentage, interval, threshold) ==
    \/ processed - last_progress >= interval
    \/ new - last_percentage >= threshold

\* lines 60-64
should_commit(processed, total, new, last_progress, last_percentage, interval, threshold) ==
    \/ processed - last_progress >= interval
    \/ new - last_percentage >= threshold
    \/ processed = total

InitProgress ==
    /\ Idle
    /\ \E range \in {<<0, 90>>, <<10, 90>>, <<90, 100>>}, progress \in {0, 5, 50, 90, 95} :
          call = [fn |-> "handle_progress", start_progress |-> range[1],
                  end_progress |-> range[2], commit_interval |-> 2,
                  percentage_threshold |-> 5, progress |-> progress]
    /\ ret = [fn |-> "handle_progress", progress |-> call.progress,
              processed_items |-> 0, total_items |-> 0, committed |-> call.progress,
              committed_items |-> 0, in_order |-> TRUE,
              last_committed_progress |-> 0,
              last_committed_percentage |-> call.start_progress,
              zero_total_committed |-> FALSE]

\* lines 38-78: one call of the callback.  ret.committed and ret.committed_items are the
\* progress and processed_items of the job as of the last db.commit(); ret.in_order records
\* that every call so far had total > 0 and a processed count not below the one before
handle_progress(processed, total) ==
    /\ call.fn = "handle_progress"
    /\ IF total > 0
       THEN LET calculated == calculated_progress(processed, total, call.start_progress,
                                                  call.end_progress)
                current == progress_or(ret.progress, call.start_progress)
                new == new_progress(current, calculated, call.end_progress)
                commit == should_commit(processed, total, new, ret.last_committed_progress,
                                        ret.last_committed_percentage, call.commit_interval,
                                        call.percentage_threshold)
            IN  ret' = [ret EXCEPT
                           !.processed_items = processed,
                           !.total_items = total,
                           !.zero_total_committed = FALSE,
                           !.progress = new,
                           !.committed = IF commit THEN new ELSE @,
                           !.committed_items = IF commit THEN processed ELSE @,
                           !.in_order = @ /\ processed >= ret.processed_items,
                           !.last_committed_progress = IF commit THEN processed ELSE @,
                           !.last_committed_percentage = IF commit THEN new ELSE @]
       ELSE LET current == progress_or(ret.progress, call.start_progress)
                set == ~ret.zero_total_committed /\ current < call.start_progress
                new == IF set THEN call.start_progress ELSE ret.progress
            IN  ret' = [ret EXCEPT
                           !.processed_items = processed,
                           !.total_items = total,
                           !.progress = new,
                           !.committed = IF ret.zero_total_committed THEN @ ELSE new,
                           !.committed_items = IF ret.zero_total_committed THEN @ ELSE processed,
                           !.in_order = FALSE,
                           !.zero_total_committed = TRUE]
    /\ UNCHANGED <<extract_state, call>>

NextProgress == \E processed \in 0..MaxItems, total \in 0..MaxItems : handle_progress(processed, total)

SpecProgress == InitProgress /\ [][NextProgress]_vars

(***************************************************************************)
(* MediaHandler.calculate_checksum and its two variants.  A SHA-256 hasher *)
(* is stood for by the bytes fed to it so far, and its digest by all of    *)
(* them: two digests are equal exactly when the same bytes were fed.       *)
(***************************************************************************)
\* n copies of c
repeat(c, n) == [i \in 1..n |-> c]

chunk_size == 8192

\* hashlib.sha256(), hasher.update(chunk), hasher.hexdigest()
sha256_new == <<>>
sha256_update(hasher, chunk) == hasher \o chunk
hexdigest(hasher) == hasher

\* f.read(n) at position pos: the next n bytes, fewer at the end, none after it
read(data, pos, n) == SubSeq(data, pos + 1, IF pos + n < Len(data) THEN pos + n ELSE Len(data))

\* for chunk in iter(lambda: f.read(8192), b""): hasher.update(chunk)
RECURSIVE read_chunks(_, _, _)
read_chunks(data, pos, hasher) ==
    LET chunk == read(data, pos, chunk_size)
    IN  IF chunk = <<>> THEN [hasher |-> hasher, position |-> pos]
        ELSE read_chunks(data, pos + Len(chunk), sha256_update(hasher, chunk))

\* lines 46-68: the file at file_path holds data
calculate_checksum(data) == hexdigest(read_chunks(data, 0, sha256_new).hasher)

\* lines 70-81
calculate_checksum_from_bytes(data) == hexdigest(sha256_update(sha256_new, data))

\* the stream read from where it stands
calculate_checksum_from_stream_in_place(stream) ==
    LET done == read_chunks(stream.data, stream.position, sha256_new)
    IN  [digest |-> hexdigest(done.hasher),
         stream |-> [data |-> stream.data, position |-> stream.position]]

\* lines 83-109: tell(), seek(0), read to the end, seek(original_position)
calculate_checksum_from_stream(stream) ==
    LET original_position == stream.position
        done == read_chunks(stream.data, 0, sha256_new)
    IN  [digest |-> hexdigest(done.hasher),
         stream |-> [data |-> stream.data, position |-> original_position]]

\* byte contents: runs of one byte, alone or closed by a different byte, with lengths
\* around one and two chunks
Contents ==
    {repeat(0, n) \o tail : n \in {0, 1, chunk_size - 1, chunk_size, 2 * chunk_size},
                            tail \in {<<>>, <<1>>}}

\* no digest computed yet: no byte is -1
NoDigest == <<-1>>

InitChecksum ==
    /\ Idle
    /\ \E data \in Contents :
          \E position \in {0, 1, chunk_size, Len(data)} \cap 0..Len(data) :
              call = [fn |-> "checksum", data |-> data, position |-> position]
    /\ ret = [fn |-> "checksum", from_path |-> NoDigest, from_bytes |-> NoDigest,
              from_stream |-> NoDigest, position |-> call.position]

ChecksumFromPath ==
    /\ call.fn = "checksum"
    /\ ret.from_path = NoDigest
    /\ ret' = [ret EXCEPT !.from_path = calculate_checksum(call.data)]
    /\ UNCHANGED <<extract_state, call>>

ChecksumFromBytes ==
    /\ call.fn = "checksum"
    /\ ret.from_bytes = NoDigest
    /\ ret' = [ret EXCEPT !.from_bytes = calculate_checksum_from_bytes(call.data)]
    /\ UNCHANGED <<extract_state, call>>

ChecksumFromStream ==
    /\ call.fn = "checksum"
    /\ ret.from_stream = NoDigest
    /\ LET out == calculate_checksum_from_stream([data |-> call.data, position |-> ret.position])
       IN  ret' = [ret EXCEPT !.from_stream = out.digest, !.position = out.stream.position]
    /\ UNCHANGED <<extract_state, call>>

NextChecksum ==
    \/ ChecksumFromPath
    \/ ChecksumFromBytes
    \/ ChecksumFromStream

SpecChecksum == InitChecksum /\ [][NextChecksum]_vars

(***************************************************************************)
(* MediaHandler.sanitize_filename.                                         *)
(***************************************************************************)
max_length == 255

\* Path(filename).name: the last component, none for an empty path or a bare root
path_name(s) ==
    LET parts == path_parts(s) IN IF parts = <<>> THEN <<>> ELSE parts[Len(parts)]

\* the characters of dangerous_chars that the alphabet has
dangerous_chars == {":", "/", "?"}

\* str.replace(char, "_") for every dangerous character
replace_dangerous(s) == [i \in DOMAIN s |-> IF s[i] \in dangerous_chars THEN "_" ELSE s[i]]

\* str.strip(". ")
strip_dots_spaces(s) ==
    LET kept == {i \in DOMAIN s : s[i] \notin {".", " "}}
    IN  IF kept = {} THEN <<>>
        ELSE SubSeq(s, CHOOSE i \in kept : \A j \in kept : i <= j,
                       CHOOSE i \in kept : \A j \in kept : j <= i)

\* Path(filename).stem of a name without separators
stem(name) == SubSeq(name, 1, Len(name) - Len(suffix(<<name>>)))

\* s[:n], n possibly negative
slice_to(s, n) ==
    IF n >= 0 THEN SubSeq(s, 1, IF n < Len(s) THEN n ELSE Len(s))
    ELSE SubSeq(s, 1, IF Len(s) + n > 0 THEN Len(s) + n ELSE 0)

s_unnamed == <<"u","n","n","a","m","e","d">>

\* lines 199-236
sanitize_filename(filename) ==
    LET stripped == strip_dots_spaces(replace_dangerous(path_name(filename)))
        named == IF stripped = <<>> THEN s_unnamed ELSE stripped
    IN  IF Len(named) > max_length
        THEN slice_to(stem(named), max_length - Len(suffix(<<named>>))) \o suffix(<<named>>)
        ELSE named

\* short strings over the characters that the steps of sanitize_filename tell apart
ShortNames ==
    UNION {[1..n -> {"a", ".", " ", "/", ":"}] : n \in 0..2}

\* the lengths of the runs of letters before and after the short string
RunLengths == {0, 1, 253, 254, 255, 256, 300}

SanitizeInputs ==
    {repeat("a", n) \o w \o repeat("b", m) : n \in RunLengths, w \in ShortNames, m \in RunLengths}

InitSanitize ==
    /\ Idle
    /\ \E filename \in SanitizeInputs : call = [fn |-> "sanitize_filename", filename |-> filename]
    /\ ret = NoCall

\* sanitize_filename applied to the input
SanitizeFilename ==
    /\ call.fn = "sanitize_filename"
    /\ ret.fn = "none"
    /\ ret' = [fn |-> "sanitize_filename", arg |-> call.filename, times |-> 1,
               value |-> sanitize_filename(call.filename)]
    /\ UNCHANGED <<extract_state, call>>

\* sanitize_filename applied to what it returned
SanitizeAgain ==
    /\ ret.fn = "sanitize_filename"
    /\ ret.times = 1
    /\ ret' = [fn |-> "sanitize_filename", arg |-> ret.value, times |-> 2,
               value |-> sanitize_filename(ret.value)]
    /\ UNCHANGED <<extract_state, call>>

NextSanitize ==
    \/ SanitizeFilename
    \/ SanitizeAgain

SpecSanitize == InitSanitize /\ [][NextSanitize]_vars

(***************************************************************************)
(* ZipHandler.validate_zip_structure.                                      *)
(***************************************************************************)
s_Photos_slash == <<"P","h","o","t","o","s","/">>
s_Videos_slash == <<"V","i","d","e","o","s","/">>

\* ".." in filename
contains_dotdot(s) == \E i \in 1..(Len(s) - 1) : s[i] = "." /\ s[i + 1] = "."

\* "/" not in filename
has_no_slash(s) == \A i \in DOMAIN s : s[i] # "/"

\* zipf.namelist()
namelist(entries) == [i \in DOMAIN entries |-> entries[i].filename]

\* any root-level .json name accepted for every format
has_data_file_any_json(file_list, st) ==
    \E i \in DOMAIN file_list :
        endswith(file_list[i], s_dot_json) /\ has_no_slash(file_list[i])

\* lines 238-254: the data file the format requires is among the names
has_data_file(file_list, st) ==
    IF st = "dayone"
    THEN \E i \in DOMAIN file_list :
            endswith(file_list[i], s_dot_json) /\ has_no_slash(file_list[i])
    ELSE \E i \in DOMAIN file_list : file_list[i] = n_data_json

\* lines 256-263: some name begins with a media prefix of the format
has_media(file_list, st) ==
    \E i \in DOMAIN file_list :
        IF st = "dayone"
        THEN \E p \in {s_photos_slash, s_Photos_slash, s_videos_slash, s_Videos_slash} :
                startswith(file_list[i], p)
        ELSE startswith(file_list[i], s_media_slash)

\* lines 265-269: one error for each name with ".." in it or a leading "/"
RECURSIVE unsafe_errors(_)
unsafe_errors(file_list) ==
    IF file_list = <<>> THEN <<>>
    ELSE (IF contains_dotdot(Head(file_list)) \/ startswith(Head(file_list), <<"/">>)
          THEN <<[kind |-> "unsafe_path", name |-> Head(file_list)]>> ELSE <<>>)
         \o unsafe_errors(Tail(file_list))

\* the scan for unsafe names stopped at the first one
first_unsafe_error(file_list) ==
    IF unsafe_errors(file_list) = <<>> THEN <<>> ELSE <<Head(unsafe_errors(file_list))>>

StructureResult(valid, data, media, file_count, size, errors) ==
    [valid |-> valid, has_data_file |-> data, has_media |-> media,
     file_count |-> file_count, total_size |-> size, errors |-> errors]

\* lines 233-269: the checks made once the integrity test has passed, errors being
\* the entries already in result["errors"] and unsafe the errors of the scan for unsafe names
contents_checks(entries, st, errors, unsafe) ==
    LET file_list == namelist(entries)
        data == has_data_file(file_list, st)
        data_errors == IF data THEN <<>> ELSE <<[kind |-> "missing_data", name |-> <<>>]>>
    IN  StructureResult(errors = <<>> /\ data /\ unsafe = <<>>, data, has_media(file_list, st),
                        Len(file_list), sum_file_size(entries), errors \o data_errors \o unsafe)

\* lines 271-288: the except clauses, one error entry for the exception caught
fault_result(fault) ==
    StructureResult(FALSE, FALSE, FALSE, 0, 0,
                    <<[kind |-> IF fault = "OSError" THEN "file_system"
                                ELSE IF fault = "RuntimeError" THEN "runtime"
                                ELSE "unexpected",
                       name |-> <<>>]>>)

\* an except clause that records the error and leaves valid as it was
validate_zip_structure_valid_on_fault(entries, st, is_zip, bad_file, fault) ==
    IF fault = "OSError" \/ (is_zip /\ fault # "none")
    THEN StructureResult(TRUE, FALSE, FALSE, 0, 0, fault_result(fault).errors)
    ELSE IF ~is_zip
    THEN StructureResult(FALSE, FALSE, FALSE, 0, 0, <<[kind |-> "invalid_zip", name |-> <<>>]>>)
    ELSE IF bad_file # 0
    THEN StructureResult(FALSE, FALSE, FALSE, 0, 0,
                         <<[kind |-> "corrupted", name |-> entries[bad_file].filename]>>)
    ELSE contents_checks(entries, st, <<>>, unsafe_errors(namelist(entries)))

\* the corrupt member recorded and the remaining checks made all the same
validate_zip_structure_checking_on(entries, st, is_zip, bad_file, fault) ==
    IF fault = "OSError" THEN fault_result(fault)
    ELSE IF ~is_zip
    THEN StructureResult(FALSE, FALSE, FALSE, 0, 0, <<[kind |-> "invalid_zip", name |-> <<>>]>>)
    ELSE IF fault # "none" THEN fault_result(fault)
    ELSE contents_checks(entries, st,
                         IF bad_file = 0 THEN <<>>
                         ELSE <<[kind |-> "corrupted", name |-> entries[bad_file].filename]>>,
                         unsafe_errors(namelist(entries)))

\* the scan for unsafe names left at the first match
validate_zip_structure_first_unsafe(entries, st, is_zip, bad_file, fault) ==
    IF fault = "OSError" THEN fault_result(fault)
    ELSE IF ~is_zip
    THEN StructureResult(FALSE, FALSE, FALSE, 0, 0, <<[kind |-> "invalid_zip", name |-> <<>>]>>)
    ELSE IF fault # "none" THEN fault_result(fault)
    ELSE IF bad_file # 0
    THEN StructureResult(FALSE, FALSE, FALSE, 0, 0,
                         <<[kind |-> "corrupted", name |-> entries[bad_file].filename]>>)
    ELSE contents_checks(entries, st, <<>>, first_unsafe_error(namelist(entries)))

\* lines 215-290; is_zip: zipfile.ZipFile finds a ZIP archive in the file, bad_file: the
\* position of the member testzip() returns, 0 for None; fault: the exception met on the
\* way, OSError when the file is opened, RuntimeError or another Exception in testzip()
validate_zip_structure(entries, st, is_zip, bad_file, fault) ==
    IF fault = "OSError" THEN fault_result(fault)
    ELSE IF ~is_zip
    THEN StructureResult(FALSE, FALSE, FALSE, 0, 0, <<[kind |-> "invalid_zip", name |-> <<>>]>>)
    ELSE IF fault # "none" THEN fault_result(fault)
    ELSE IF bad_file # 0
    THEN StructureResult(FALSE, FALSE, FALSE, 0, 0,
                         <<[kind |-> "corrupted", name |-> entries[bad_file].filename]>>)
    ELSE contents_checks(entries, st, <<>>, unsafe_errors(namelist(entries)))

\* a name with two dots in a row that is no parent-directory segment
n_dots == <<"a",".",".","b">>

\* a Day One photo under an upper-case directory name
n_PHOTOS == <<"P","H","O","T","O","S","/","a",".","j","p","g">>

StructurePool ==
    EntryPool \cup {Info(n_dots, 9, m_text, FALSE), Info(n_PHOTOS, 15, m_jpeg, FALSE)}

StructureArchives == UNION {[1..n -> StructurePool] : n \in 0..MaxEntries}

Faults == {"none", "OSError", "RuntimeError", "Exception"}

InitStructure ==
    /\ Idle
    /\ \E entries \in StructureArchives, st \in {"none", "dayone"}, is_zip \in BOOLEAN :
          \E bad_file \in 0..Len(entries), fault \in Faults :
              call = [fn |-> "validate_zip_structure", entries |-> entries, source_type |-> st,
                      is_zip |-> is_zip, bad_file |-> bad_file, fault |-> fault]
    /\ ret = NoCall

ValidateZipStructure ==
    /\ call.fn = "validate_zip_structure"
    /\ ret.fn = "none"
    /\ ret' = [fn |-> "validate_zip_structure",
               result |-> validate_zip_structure(call.entries, call.source_type,
                                                 call.is_zip, call.bad_file, call.fault)]
    /\ UNCHANGED <<extract_state, call>>

NextStructure == ValidateZipStructure

SpecStructure == InitStructure /\ [][NextStructure]_vars

(***************************************************************************)
(* Vocabulary of the properties.                                           *)
(***************************************************************************)
Entries == 1..Len(archive)

\* the declared name ends with the separator: a directory entry
DirectoryName(i) == archive[i].filename[Len(archive[i].filename)] = "/"

FileEntries == {i \in Entries : ~DirectoryName(i)}

\* path lies at or below root, component by component
Contained(path, root) ==
    /\ Len(path) >= Len(root)
    /\ \A k \in 1..Len(root) : path[k] = root[k]

\* the root an entry is to be written under
DesignatedRoot(i) ==
    IF is_media_file(archive[i], source_type) /\ media_dest # NoPath THEN MediaDest ELSE ExtractTo

ResolvedTarget(i) == target_path(archive[i], source_type, media_dest)

\* the declared name has a ".." component or a leading separator
DeclaredUnsafe(i) ==
    \/ archive[i].filename[1] = "/"
    \/ \E k \in DOMAIN split_slash(archive[i].filename) :
          split_slash(archive[i].filename)[k] = <<".", ".">>

OpenedBy(i) == \E o \in opened : o.by = i

OnDisk(i) == \E f \in fs_files : f.by = i

Terminated == pc \in {"done", "failed"}

ArchiveLevelCauses == {"invalid_zip", "corrupted", "too_large"}

RECURSIVE DeclaredTotal(_)
DeclaredTotal(n) == IF n = 0 THEN 0 ELSE archive[n].file_size + DeclaredTotal(n - 1)

RECURSIVE SumOver(_, _)
SumOver(f, keys) ==
    IF keys = {} THEN 0
    ELSE LET k == CHOOSE x \in keys : TRUE IN f[k] + SumOver(f, keys \ {k})

CallsFor(i) == {k \in DOMAIN progress_calls : progress_calls[k][1] = i}

LoopCompleted == idx > Len(archive)

(***************************************************************************)
(* C1: every file opened for writing, every file on disk and every         *)
(* directory made lies at or below the designated root of the entry it     *)
(* belongs to (media_dest for a media entry when supplied, extract_to      *)
(* otherwise), compared component by component; the write position is      *)
(* reached only with a target that passed this test.                       *)
(***************************************************************************)
C1_WritesStayUnderRoot ==
    /\ \A o \in opened :
          /\ o.root = DesignatedRoot(o.by)
          /\ o.path = ResolvedTarget(o.by)
          /\ Contained(o.path, o.root)
    /\ \A f \in fs_files :
          \/ Contained(f.path, ExtractTo)
          \/ media_dest # NoPath /\ Contained(f.path, MediaDest)
    /\ \A d \in fs_dirs :
          \/ Contained(d, ExtractTo) \/ Contained(ExtractTo, d)
          \/ media_dest # NoPath /\ (Contained(d, MediaDest) \/ Contained(MediaDest, d))
    /\ pc = "write" => Contained(ResolvedTarget(idx), DesignatedRoot(idx))

\* a finished run that wrote one file under each root
C1_Witness ==
    /\ pc = "done"
    /\ \E o \in opened : o.root = MediaDest
    /\ \E o \in opened : o.root = ExtractTo

(***************************************************************************)
(* C2 as stated: in a run that got past the archive-level checks and       *)
(* ended, every non-directory entry whose declared name has a ".."         *)
(* component or a leading separator made the run fail with the unsafe-path *)
(* error naming such an entry, and nothing of it was written.              *)
(***************************************************************************)
C2_DeclaredUnsafeAlwaysFails ==
    (Terminated /\ error.cause \notin ArchiveLevelCauses) =>
        \A i \in FileEntries :
            DeclaredUnsafe(i) =>
                /\ pc = "failed"
                /\ error.cause = "unsafe_path"
                /\ \E j \in FileEntries : DeclaredUnsafe(j) /\ error.name = archive[j].filename
                /\ ~OpenedBy(i)

(***************************************************************************)
(* C2 amended: the loop never gets past a non-directory entry whose        *)
(* resolved target lies outside its designated root: reaching it ends the  *)
(* run with the unsafe-path error naming that entry and no byte of it is   *)
(* written; and the unsafe-path error is raised for no other entry.        *)
(***************************************************************************)
C2_EscapingEntryFails ==
    /\ \A i \in FileEntries :
          ~Contained(ResolvedTarget(i), DesignatedRoot(i)) =>
              /\ idx <= i
              /\ idx = i => pc \in {"check", "failed"}
              /\ (idx = i /\ pc = "failed") =>
                     error.cause = "unsafe_path" /\ error.name = archive[i].filename
              /\ ~OpenedBy(i) /\ ~OnDisk(i)
    /\ (pc = "failed" /\ error.cause = "unsafe_path") =>
          /\ idx \in FileEntries
          /\ error.name = archive[idx].filename
          /\ ~Contained(ResolvedTarget(idx), DesignatedRoot(idx))

\* an entry with ".." or a leading separator was written, then an escaping one was refused
C2_Witness ==
    /\ pc = "failed"
    /\ error.cause = "unsafe_path"
    /\ error.name = n_escape
    /\ \E i \in FileEntries : i < idx /\ DeclaredUnsafe(i) /\ OnDisk(i)

(***************************************************************************)
(* C3: an archive whose entry sizes sum to more than max_size_mb MiB never *)
(* gets past the start: the run fails (with the too-large error once the   *)
(* integrity test has passed) and no directory or file is created; a total *)
(* equal to the ceiling is never refused as too large.                     *)
(***************************************************************************)
C3_TooLargeCreatesNothing ==
    /\ DeclaredTotal(Len(archive)) > max_size_mb * 1024 * 1024 =>
          /\ pc \in {"start", "failed"}
          /\ pc = "failed" => error.cause \in ArchiveLevelCauses
          /\ fs_files = {} /\ fs_dirs = {<<>>} /\ opened = {}
    /\ error.cause = "too_large" => DeclaredTotal(Len(archive)) > max_size_mb * 1024 * 1024

C3_Witness ==
    /\ pc = "failed"
    /\ error.cause = "too_large"
    /\ DeclaredTotal(Len(archive)) > max_size_mb * 1024 * 1024

(***************************************************************************)
(* C4 as stated: after a successful return with validate_media on, no      *)
(* rejected media entry has its file on disk.                              *)
(***************************************************************************)
C4_RejectedAlwaysAbsent ==
    (pc = "done" /\ validate_media) =>
        \A k \in DOMAIN warnings : ~OnDisk(warnings[k].by)

(***************************************************************************)
(* C4 amended: after a successful return with validate_media on, every     *)
(* rejected media entry whose deletion did not raise is absent from disk,  *)
(* and each category label counts exactly the rejections of its category   *)
(* (each rejection added one to exactly one label).                        *)
(***************************************************************************)
C4_RejectedAbsentUnlessCleanupFailed ==
    (pc = "done" /\ validate_media) =>
        /\ \A k \in DOMAIN warnings :
              warnings[k].by \notin undeleted => ~OnDisk(warnings[k].by)
        /\ \A k, l \in DOMAIN warnings : warnings[k].by = warnings[l].by => k = l
        /\ DOMAIN warning_categories = {display_category(warnings[k].category) : k \in DOMAIN warnings}
        /\ \A c \in DOMAIN warning_categories :
              warning_categories[c] =
                  Cardinality({k \in DOMAIN warnings : display_category(warnings[k].category) = c})

C4_Witness ==
    /\ pc = "done"
    /\ validate_media
    /\ warnings # <<>>
    /\ undeleted = {}
    /\ \A k \in DOMAIN warnings : OpenedBy(warnings[k].by) /\ ~OnDisk(warnings[k].by)

(***************************************************************************)
(* C5: a rejection by media validation never ends the run: no failure      *)
(* happens at an entry that was rejected, a run with rejections fails at   *)
(* the end only if the data file really is missing, and a run that         *)
(* returns has written every non-directory entry.                          *)
(***************************************************************************)
C5_RejectionNeverAborts ==
    /\ pc = "failed" => \A k \in DOMAIN warnings : warnings[k].by # idx
    /\ \A k \in DOMAIN warnings :
          warnings[k].by < idx \/ pc \in {"delete", "progress", "loop"}
    /\ (pc = "failed" /\ LoopCompleted) =>
          IF source_type = "dayone"
          THEN root_json_files(fs_files, fs_dirs) = {}
          ELSE ~exists(fs_files, fs_dirs, Append(ExtractTo, n_data_json))
    /\ pc = "done" => \A i \in FileEntries : OpenedBy(i)

\* a run that returned although an earlier entry had been rejected
C5_Witness ==
    /\ pc = "done"
    /\ warnings # <<>>
    /\ \E i \in FileEntries : i > warnings[1].by /\ OnDisk(i)

(***************************************************************************)
(* C6 as stated: when a run with a progress callback returns, the last     *)
(* callback invocation was (N, N), N the number of non-directory entries.  *)
(***************************************************************************)
C6_LastCallIsNN ==
    (pc = "done" /\ progress_callback = "track") =>
        /\ progress_calls # <<>>
        /\ progress_calls[Len(progress_calls)] =
               <<Cardinality(FileEntries), Cardinality(FileEntries)>>

(***************************************************************************)
(* C7: in the sequence of callback arguments, processed never decreases,   *)
(* total is the same in every call, and processed never exceeds total.     *)
(***************************************************************************)
C7_ProgressMonotone ==
    \A k \in DOMAIN progress_calls :
        /\ progress_calls[k][2] = progress_calls[1][2]
        /\ progress_calls[k][1] <= progress_calls[k][2]
        /\ k > 1 => progress_calls[k - 1][1] <= progress_calls[k][1]

C7_Witness == Len(progress_calls) >= 2

(***************************************************************************)
(* C8: the callback is never invoked for a directory entry and never twice *)
(* for one entry, and once the loop has run to its end it has been invoked *)
(* exactly once for every non-directory entry, rejected or not.            *)
(***************************************************************************)
C8_OneCallPerFileEntry ==
    progress_callback = "track" =>
        /\ \A k \in DOMAIN progress_calls : progress_calls[k][1] \in FileEntries
        /\ \A i \in Entries : Cardinality(CallsFor(i)) <= 1
        /\ LoopCompleted => \A i \in FileEntries : Cardinality(CallsFor(i)) = 1
        /\ LoopCompleted => Len(progress_calls) = Cardinality(FileEntries)

\* the loop ended over an archive with a directory entry and a rejected entry
C8_Witness ==
    /\ progress_callback = "track"
    /\ LoopCompleted
    /\ Entries # FileEntries
    /\ warnings # <<>>
    /\ progress_calls # <<>>

(***************************************************************************)
(* C9: at every position of the run, and in the returned result, the       *)
(* counts of warning_categories sum to the number of warnings.             *)
(***************************************************************************)
C9_CountsSumToWarnings ==
    /\ SumOver(warning_categories, DOMAIN warning_categories) = Len(warnings)
    /\ pc = "done" =>
          SumOver(result.warning_categories, DOMAIN result.warning_categories)
              = Len(result.warnings)

\* two rejections counted under one label
C9_Witness ==
    /\ Len(warnings) = 2
    /\ Cardinality(DOMAIN warning_categories) = 1

(***************************************************************************)
(* C10: the total_size of a returned result is the sum of the declared     *)
(* sizes of all entries of the archive, whatever was rejected and deleted. *)
(***************************************************************************)
C10_TotalSizeIsDeclaredSum ==
    pc = "done" => result.total_size = DeclaredTotal(Len(archive))

\* a run that returned after deleting a rejected file
C10_Witness ==
    /\ pc = "done"
    /\ \E k \in DOMAIN warnings : ~OnDisk(warnings[k].by)
    /\ result.total_size > sum_sizes(fs_files)

(***************************************************************************)
(* Vocabulary of the properties, continued.                                *)
(***************************************************************************)
\* the archive has the data member its format requires: an entry named data.json, or
\* for a Day One archive a file entry at the root whose name ends in .json
HasDataMember ==
    IF source_type = "dayone"
    THEN \E i \in FileEntries :
            /\ endswith(archive[i].filename, s_dot_json)
            /\ \A k \in DOMAIN archive[i].filename : archive[i].filename[k] # "/"
    ELSE \E i \in Entries : archive[i].filename = n_data_json

MissingDataCauses == {"missing_json", "data_not_found"}

\* the declared name begins with a media prefix of the archive's format
MediaName(i) ==
    LET name == archive[i].filename
        head(n) == IF Len(name) >= n THEN lower(SubSeq(name, 1, n)) ELSE <<>>
    IN  IF source_type = "dayone"
        THEN head(7) \in {s_photos_slash, s_videos_slash}
        ELSE Len(name) >= 6 /\ SubSeq(name, 1, 6) = s_media_slash

C12_MediaGoesToMediaDest ==
    media_dest # NoPath =>
        \A o \in opened :
            IF MediaName(o.by)
            THEN /\ o.path = MediaDest \o (IF source_type = "dayone"
                                           THEN path_parts(archive[o.by].filename)
                                           ELSE Tail(path_parts(archive[o.by].filename)))
                 /\ Contained(o.path, MediaDest)
                 /\ ~Contained(o.path, ExtractTo)
            ELSE /\ Contained(o.path, ExtractTo)
                 /\ ~Contained(o.path, MediaDest)

\* a finished Journiv run that wrote media/a.jpg at media_dest/a.jpg and data.json in staging
C12_Witness ==
    /\ pc = "done"
    /\ source_type = "none"
    /\ media_dest = MediaDest
    /\ \E o \in opened : MediaName(o.by) /\ o.path = Append(MediaDest, <<"a", ".", "j", "p", "g">>)
    /\ \E o \in opened : ~MediaName(o.by) /\ o.path = Append(ExtractTo, n_data_json)

\* the staging location of media: extract_to/media, or extract_to for a Day One archive
StagingMedia == IF source_type = "dayone" THEN ExtractTo ELSE ExtractTo \o <<s_media>>

\* a file or a directory is at path as the state stands
Present(path) == path \in fs_dirs \/ \E f \in fs_files : f.path = path

(***************************************************************************)
(* C13 as stated: the media directory of a successful result is media_dest *)
(* exactly when media_dest was supplied and this extraction placed a media *)
(* file in it, and the staging media subdirectory otherwise.               *)
(***************************************************************************)
C13_MediaDestIffPopulated ==
    pc = "done" =>
        result.media_dir =
            IF media_dest # NoPath /\ \E o \in opened : MediaName(o.by) /\ o.root = MediaDest
            THEN MediaDest ELSE StagingMedia

(***************************************************************************)
(* C13 amended: the media directory of a successful result is media_dest   *)
(* exactly when media_dest was supplied and exists when the loop is over   *)
(* (it was there before the call, or a media entry was written into it);   *)
(* otherwise it is the staging media location when that exists, and none   *)
(* when it does not.                                                       *)
(***************************************************************************)
C13_MediaDestIffExists ==
    pc = "done" =>
        /\ result.media_dir =
              IF media_dest # NoPath /\ Present(MediaDest) THEN MediaDest
              ELSE IF Present(StagingMedia) THEN StagingMedia
              ELSE NoPath
        /\ (media_dest # NoPath /\ \E o \in opened : o.root = MediaDest) =>
              result.media_dir = MediaDest
        /\ result.media_dir = MediaDest => media_dest # NoPath

\* media_dest existed beforehand and is returned although no media entry was written
C13_Witness ==
    /\ pc = "done"
    /\ media_dest = MediaDest
    /\ \A o \in opened : o.root # MediaDest
    /\ result.media_dir = MediaDest

(***************************************************************************)
(* C14 as stated: a run that fails on the integrity test, on the size      *)
(* ceiling or on an unsafe path returns no result and leaves no extracted  *)
(* entry under extract_to or media_dest.                                   *)
(***************************************************************************)
C14_FailureLeavesNothing ==
    (pc = "failed" /\ error.cause \in ArchiveLevelCauses \cup {"unsafe_path"}) =>
        /\ result = NoResult
        /\ \A i \in Entries : ~OnDisk(i)

(***************************************************************************)
(* C15 as stated: a run that fails because the archive is invalid,         *)
(* corrupted or too large raises ValueError, and a run that fails for any  *)
(* other reason inside the extraction raises IOError.                      *)
(***************************************************************************)
C15_ValueErrorForBadArchive ==
    pc = "failed" =>
        IF error.cause \in ArchiveLevelCauses
        THEN error.type = "ValueError"
        ELSE error.type = "IOError"

\* the progress callback raised: the run ended at the call made for entry idx
Cancelled == pc = "failed" /\ error.cause = "callback"

Validated == ret.fn = "validate_media" /\ ~call.stat_fails

\* the four checks of validate_media, each on its own
FileExists == call.st_size >= 0
SizeFits == call.st_size <= call.max_size_mb * 1024 * 1024
TypeAllowed == validate_media_type(call.mime, call.allowed_types)
ExtensionListed ==
    call.allowed_extensions = {} \/ lower(suffix(call.file_path)) \in call.allowed_extensions

(***************************************************************************)
(* C17: validate_media reports the category of the first check that fails  *)
(* in the order existence, size, MIME type, extension, and it returns      *)
(* valid, with the detected MIME type, exactly when all four checks pass.  *)
(***************************************************************************)
C17_FirstFailingCheck ==
    Validated =>
        /\ ret.category =
              IF ~FileExists THEN "not_found"
              ELSE IF ~SizeFits THEN "size"
              ELSE IF ~TypeAllowed THEN "format"
              ELSE IF ~ExtensionListed THEN "extension"
              ELSE "none"
        /\ ret.is_valid <=> (FileExists /\ SizeFits /\ TypeAllowed /\ ExtensionListed)
        /\ ret.is_valid <=> ret.category = "none"
        /\ ret.is_valid => ret.mime_type = call.mime

\* a file that is too large and of a type not allowed is reported for its size
C17_Witness ==
    /\ Validated
    /\ FileExists
    /\ ~SizeFits
    /\ ~TypeAllowed
    /\ ~ExtensionListed
    /\ ret.category = "size"

\* some element of the list equals the file's extension when case is ignored
ExtensionMatchesIgnoringCase ==
    \E e \in call.allowed_extensions : lower(e) = lower(suffix(call.file_path))

(***************************************************************************)
(* C18 as stated: when the extension check is reached with a non-empty     *)
(* list, the file is rejected with category extension if and only if no    *)
(* element of the list equals its extension ignoring case; with an empty   *)
(* list the extension check rejects nothing.                               *)
(***************************************************************************)
C18_ExtensionIgnoresCase ==
    (Validated /\ FileExists /\ SizeFits /\ TypeAllowed) =>
        IF call.allowed_extensions = {}
        THEN ret.category # "extension"
        ELSE ret.category = "extension" <=> ~ExtensionMatchesIgnoringCase

\* validate_zip_structure returned for an archive that was opened and read without a fault
Inspected == ret.fn = "validate_zip_structure" /\ call.is_zip /\ call.fault = "none"

Names == DOMAIN call.entries

\* the name has a leading separator or two dots in a row
MarkedUnsafe(i) ==
    LET name == call.entries[i].filename
    IN  \/ name # <<>> /\ name[1] = "/"
        \/ \E k \in DOMAIN name : k < Len(name) /\ name[k] = "." /\ name[k + 1] = "."

\* the names hold the structured-data member of the format
DataMemberListed ==
    IF call.source_type = "dayone"
    THEN \E i \in Names :
            LET name == call.entries[i].filename
            IN  /\ Len(name) >= 5
                /\ SubSeq(name, Len(name) - 4, Len(name)) = s_dot_json
                /\ \A k \in DOMAIN name : name[k] # "/"
    ELSE \E i \in Names : call.entries[i].filename = n_data_json

ErrorsOf(kind) == {k \in DOMAIN ret.result.errors : ret.result.errors[k].kind = kind}

(***************************************************************************)
(* C19: when the integrity test names a corrupt member, the result is not  *)
(* valid, errors holds exactly one entry and it names that member, and no  *)
(* other check was made: has_data_file and has_media are false,            *)
(* file_count and total_size are 0.                                        *)
(***************************************************************************)
C19_CorruptMemberOnly ==
    (Inspected /\ call.bad_file # 0) =>
        /\ ~ret.result.valid
        /\ Len(ret.result.errors) = 1
        /\ ret.result.errors[1].kind = "corrupted"
        /\ ret.result.errors[1].name = call.entries[call.bad_file].filename
        /\ ~ret.result.has_data_file
        /\ ~ret.result.has_media
        /\ ret.result.file_count = 0
        /\ ret.result.total_size = 0

\* the second member is corrupt in an archive that has data.json and an unsafe name
C19_Witness ==
    /\ Inspected
    /\ call.bad_file = 2
    /\ call.entries[1].filename = n_data_json
    /\ MarkedUnsafe(2)
    /\ Len(ret.result.errors) = 1

(***************************************************************************)
(* C20: for an archive that passes the integrity test, errors holds one    *)
(* entry for the missing data member exactly when it is missing, and one   *)
(* entry for each entry whose name is unsafe, naming it, and nothing else; *)
(* valid is true exactly when errors is empty.                             *)
(***************************************************************************)
C20_AllProblemsReported ==
    (Inspected /\ call.bad_file = 0) =>
        /\ Cardinality(ErrorsOf("missing_data")) = IF DataMemberListed THEN 0 ELSE 1
        /\ Cardinality(ErrorsOf("unsafe_path")) = Cardinality({i \in Names : MarkedUnsafe(i)})
        /\ \A i \in Names :
              MarkedUnsafe(i) =>
                  Cardinality({k \in ErrorsOf("unsafe_path") :
                                  ret.result.errors[k].name = call.entries[i].filename})
                  = Cardinality({j \in Names :
                                  call.entries[j].filename = call.entries[i].filename})
        /\ Len(ret.result.errors)
              = Cardinality(ErrorsOf("missing_data")) + Cardinality(ErrorsOf("unsafe_path"))
        /\ ret.result.valid <=> ret.result.errors = <<>>
        /\ ret.result.has_data_file <=> DataMemberListed

\* no data member and two different unsafe names: three errors in one result
C20_Witness ==
    /\ Inspected
    /\ call.bad_file = 0
    /\ Len(call.entries) = 2
    /\ MarkedUnsafe(1)
    /\ MarkedUnsafe(2)
    /\ call.entries[1].filename # call.entries[2].filename
    /\ Len(ret.result.errors) = 3

\* the name has a component equal to ".." or begins with the separator
SegmentUnsafe(i) ==
    LET name == call.entries[i].filename
    IN  \/ name # <<>> /\ name[1] = "/"
        \/ \E k \in DOMAIN split_slash(name) : split_slash(name)[k] = <<".", ".">>

ReportedUnsafe(i) ==
    \E k \in ErrorsOf("unsafe_path") : ret.result.errors[k].name = call.entries[i].filename

(***************************************************************************)
(* C21 as stated: for an archive that passes the integrity test, an entry  *)
(* name is reported as unsafe if and only if it has a component equal to   *)
(* ".." or begins with "/".                                                *)
(***************************************************************************)
C21_UnsafeIffSegment ==
    (Inspected /\ call.bad_file = 0) =>
        \A i \in Names : ReportedUnsafe(i) <=> SegmentUnsafe(i)

\* an exception was met while the archive was opened or inspected
Faulted == ret.fn = "validate_zip_structure" /\ (call.fault # "none" \/ ~call.is_zip)

(***************************************************************************)
(* C22: whatever exception is met while the archive is opened or           *)
(* inspected, validate_zip_structure returns a result, and that result has *)
(* valid false and exactly one errors entry, which describes the fault;    *)
(* none of the content checks has left a trace in it.                      *)
(***************************************************************************)
C22_FaultGivesOneError ==
    /\ ret.fn = "validate_zip_structure" => DOMAIN ret = {"fn", "result"}
    /\ Faulted =>
          /\ ~ret.result.valid
          /\ Len(ret.result.errors) = 1
          /\ ret.result.errors[1].kind \in {"invalid_zip", "file_system", "runtime", "unexpected"}
          /\ call.fault = "OSError" => ret.result.errors[1].kind = "file_system"
          /\ ~ret.result.has_data_file /\ ~ret.result.has_media
          /\ ret.result.file_count = 0 /\ ret.result.total_size = 0

\* a fault inside the integrity test of an archive that has unsafe names and lacks data.json
C22_Witness ==
    /\ Faulted
    /\ call.is_zip
    /\ call.fault = "RuntimeError"
    /\ Len(call.entries) = 2
    /\ SegmentUnsafe(1)
    /\ ret.result.errors[1].kind = "runtime"

\* sanitize_filename returned
Sanitized == ret.fn = "sanitize_filename"

(***************************************************************************)
(* C23 as stated: sanitizing a name that sanitize_filename returned gives  *)
(* that name back.                                                         *)
(***************************************************************************)
C23_SanitizeIdempotent ==
    (Sanitized /\ ret.times = 2) => ret.value = ret.arg

(***************************************************************************)
(* C24 as stated: the result of sanitize_filename is not empty and has at  *)
(* most 255 characters, and a result shorter than the cleaned name ends    *)
(* with the suffix that name had.                                          *)
(***************************************************************************)
C24_SanitizedLengthBounded ==
    (Sanitized /\ ret.times = 1) =>
        LET cleaned == strip_dots_spaces(replace_dangerous(path_name(ret.arg)))
            ext == suffix(<<cleaned>>)
        IN  /\ ret.value # <<>>
            /\ Len(ret.value) <= 255
            /\ Len(cleaned) > 255 =>
                  /\ Len(ret.value) >= Len(ext)
                  /\ SubSeq(ret.value, Len(ret.value) - Len(ext) + 1, Len(ret.value)) = ext

(***************************************************************************)
(* C25: the digests computed from the path, from the bytes and from the    *)
(* stream are the same whatever position the stream stood at, each covers  *)
(* the whole content, and the stream stands after the call where it stood  *)
(* before it.                                                              *)
(***************************************************************************)
C25_ChecksumsAgree ==
    ret.fn = "checksum" =>
        /\ \A d \in {ret.from_path, ret.from_bytes, ret.from_stream} \ {NoDigest} :
              d = call.data
        /\ ret.position = call.position

\* all three computed, over more than one chunk, the stream having stood inside the content
C25_Witness ==
    /\ ret.fn = "checksum"
    /\ Len(call.data) > chunk_size
    /\ call.position \notin {0, Len(call.data)}
    /\ NoDigest \notin {ret.from_path, ret.from_bytes, ret.from_stream}
    /\ ret.from_path = ret.from_stream
    /\ ret.from_bytes = ret.from_stream

\* the callback's job record
Job == ret

InRange(progress) == call.start_progress <= progress /\ progress <= call.end_progress

Placed(files) == {[path |-> f.path, size |-> f.size] : f \in files}

(***************************************************************************)
(* C27 as stated: a stream_extract run without media_dest and without      *)
(* media validation, on an archive that opens and passes the integrity     *)
(* test, ends as extract_zip does on the same archive: both fail with the  *)
(* same kind of error, or both return the same data_file, media_dir,       *)
(* total_size and file_count, and both leave the same files on disk.       *)
(***************************************************************************)
C27_SameAsExtractZip ==
    (/\ Terminated
     /\ media_dest = NoPath
     /\ ~validate_media
     /\ error.cause \notin {"invalid_zip", "corrupted"}) =>
        LET z == extract_zip(archive, source_type, max_size_mb)
        IN  /\ pc = "failed" <=> z.kind = "error"
            /\ pc = "failed" => error.type = z.type
            /\ pc = "done" =>
                  /\ z.kind = "result"
                  /\ result.data_file \in z.data_files
                  /\ result.media_dir = z.media_dir
                  /\ result.total_size = z.total_size
                  /\ result.file_count = z.file_count
            /\ Placed(fs_files) = Placed(z.files)

\* the steps of one non-directory entry follow one another in the order of the loop body
StepsInOrder ==
    /\ pc = "check" => pc' \in {"write", "failed"}
    /\ pc = "write" => pc' \in {"validate", "progress", "failed"}
    /\ pc = "validate" => pc' \in {"delete", "progress"}
    /\ pc = "delete" => pc' = "progress"
    /\ pc = "progress" => pc' \in {"loop", "failed"}
    /\ pc' = "progress" => idx' = idx /\ OpenedBy(idx)'

(***************************************************************************)
(* C30 as stated: the steps of an entry come in the order path check,      *)
(* write, media validation, deletion if rejected, progress callback, and   *)
(* whenever the callback is about to be invoked no media file rejected so  *)
(* far is on disk.                                                         *)
(***************************************************************************)
C30_NoRejectedFileAtCallback ==
    [][/\ StepsInOrder
       /\ pc' = "progress" => \A k \in DOMAIN warnings' : ~OnDisk(warnings[k].by)']_vars

(***************************************************************************)
(* C30 amended: the steps of an entry come in that order, and whenever the *)
(* callback is about to be invoked every media file rejected so far is     *)
(* off the disk, except those whose deletion raised.                       *)
(***************************************************************************)
C30_RejectedGoneUnlessDeleteFailed ==
    [][/\ StepsInOrder
       /\ pc' = "progress" =>
             \A k \in DOMAIN warnings' :
                 \/ ~OnDisk(warnings[k].by)'
                 \/ warnings'[k].by \in undeleted']_vars

\* the callback is about to be invoked for an entry that was written, rejected and deleted
C30_Witness ==
    /\ pc = "progress"
    /\ progress_callback # "none"
    /\ \E k \in DOMAIN warnings : warnings[k].by = idx
    /\ OpenedBy(idx)
    /\ ~OnDisk(idx)
    /\ idx \notin undeleted

Uploaded == ret.fn = "process_upload"

\* the bytes of the upload fit the limit
UploadFits ==
    SumOver(call.chunks, DOMAIN call.chunks) <= call.max_size_mb * 1024 * 1024

(***************************************************************************)
(* C29 as stated: when process_upload ends with an error the saved file    *)
(* does not exist, and the error is an HTTP error: 400 for a name that is  *)
(* no .zip name, before anything is created, and otherwise 413, 400 or     *)
(* 500; a path is returned only when the size fits and the structure is    *)
(* valid, and then the file exists.                                        *)
(***************************************************************************)
C29_UploadErrorLeavesNoFile ==
    Uploaded =>
        LET o == ret.outcome
        IN  /\ o.raised # "none" =>
                  /\ ~o.file_exists
                  /\ o.raised = "HTTPException"
                  /\ o.status \in {400, 413, 500}
            /\ (o.status = 400 /\ ~o.dir_made) => ~o.file_exists
            /\ o.raised = "none" => (UploadFits /\ call.valid /\ o.file_exists)

\* the local variables of call p of the pair
CallOf(p) == IF call.active = p THEN running_call ELSE ret.saved[p]

\* the repetition of call.replay_of alone has ended
Replayed == call.fn = "pair" /\ call.active = 3 /\ pc \in {"done", "failed"}

\* what lies at or below the two roots r
FilesUnder(files, r) ==
    {f \in files : Contained(f.path, r.extract_to) \/ Contained(f.path, r.media_dest)}

DirsUnder(dirs, r) ==
    {d \in dirs : Contained(d, r.extract_to) \/ Contained(d, r.media_dest)}

\* the archive opened and tested the same way and the same removals failed in both runs
SameEnvironment(a) ==
    /\ a.undeleted = undeleted
    /\ (a.error.cause \in {"invalid_zip", "corrupted"} \/ error.cause \in {"invalid_zip", "corrupted"})
          => a.error.cause = error.cause

(***************************************************************************)
(* C28: two stream_extract calls with disjoint staging and media roots,    *)
(* their steps interleaved in any order: a call opens files only under its *)
(* own roots, and it ends as it does when run alone in the same            *)
(* environment: same position, result, error and progress sequence, same   *)
(* files and directories under its roots.                                  *)
(***************************************************************************)
C28_ConcurrentCallsDoNotInterfere ==
    call.fn = "pair" =>
        /\ \A p \in {1, 2} : \A o \in CallOf(p).opened :
              /\ Contained(o.path, StagingRoots(p).extract_to)
                    \/ Contained(o.path, StagingRoots(p).media_dest)
              /\ ~Contained(o.path, StagingRoots(3 - p).extract_to)
              /\ ~Contained(o.path, StagingRoots(3 - p).media_dest)
        /\ (Replayed /\ SameEnvironment(ret.saved[call.replay_of])) =>
              LET a == ret.saved[call.replay_of]
                  r == StagingRoots(call.replay_of)
              IN  /\ a.pc = pc
                  /\ a.result = result
                  /\ a.error = error
                  /\ a.progress_calls = progress_calls
                  /\ a.warnings = warnings
                  /\ FilesUnder(ret.fs.files, r) = FilesUnder(fs_files, r)
                  /\ DirsUnder(ret.fs.dirs, r) = DirsUnder(fs_dirs, r)

\* both concurrent calls returned with files under the roots of each, and so did the
\* repetition
C28_Witness ==
    /\ Replayed
    /\ pc = "done"
    /\ ret.saved[1].pc = "done"
    /\ ret.saved[2].pc = "done"
    /\ ret.saved[1].progress_calls # <<>>
    /\ FilesUnder(ret.fs.files, StagingRoots(1)) # {}
    /\ FilesUnder(ret.fs.files, StagingRoots(2)) # {}
    /\ FilesUnder(fs_files, StagingRoots(call.replay_of)) # {}

\* the progress callback was invoked for entry k
ReportedFor(k) ==
    \E j \in DOMAIN progress_calls : progress_calls[j] = progress_args(k, total_files(archive))

\* the steps of entry k up to its progress report are over
PastEntry(k) == idx > k \/ (idx = k /\ pc = "loop")

(***************************************************************************)
(* C31: for every rejected media file whose removal raised, the warning    *)
(* and its category count are recorded, the run does not fail at that      *)
(* entry, the progress callback is invoked for it, every later file entry  *)
(* reached is extracted, and a run that ends normally returns a result     *)
(* that carries the warning.                                               *)
(***************************************************************************)
C31_CleanupFailureNotFatal ==
    \A k \in undeleted :
        /\ \E j \in DOMAIN warnings :
              /\ warnings[j].by = k
              /\ display_category(warnings[j].category) \in DOMAIN warning_categories
              /\ warning_categories[display_category(warnings[j].category)] >= 1
        /\ pc = "failed" => idx # k
        /\ (PastEntry(k) /\ progress_callback # "none") => ReportedFor(k)
        /\ \A i \in FileEntries : (i > k /\ PastEntry(i)) => OpenedBy(i)
        /\ pc = "done" =>
              /\ result.kind = "result"
              /\ result.warnings = warnings
              /\ \A i \in FileEntries : OpenedBy(i)

\* a run returned its result after the removal of the first entry raised and the second
\* entry was extracted
C31_Witness ==
    /\ pc = "done"
    /\ 1 \in undeleted
    /\ OnDisk(1)
    /\ OpenedBy(2)
    /\ progress_callback # "none"
    /\ ReportedFor(1)

\* every call of the callback so far had total > 0 and processed never decreased, and there
\* was at least one call
CalledInOrder == ret.fn = "handle_progress" /\ ret.in_order /\ ret.total_items > 0

(***************************************************************************)
(* C32: after every call of the throttled callback in a sequence of calls  *)
(* with total > 0 and non-decreasing processed, the processed count is     *)
(* less than commit_interval ahead of the processed count of the last      *)
(* commit, and after a call with processed = total the job's processed     *)
(* count and progress are committed.                                       *)
(***************************************************************************)
C32_CommitNeverFarBehind ==
    CalledInOrder =>
        /\ Job.processed_items - Job.committed_items < call.commit_interval
        /\ Job.committed_items = Job.last_committed_progress
        /\ Job.processed_items = Job.total_items =>
              /\ Job.committed_items = Job.processed_items
              /\ Job.committed = Job.progress

\* a call with processed = total = 3 was committed, on a job whose progress was at
\* end_progress from the start
C32_Witness ==
    /\ CalledInOrder
    /\ Job.processed_items = Job.total_items
    /\ Job.processed_items = 3
    /\ Job.committed_items = 3
    /\ call.progress = 90
    /\ call.end_progress = 90

\* both signals are handled by the GracefulInterruptHandler
HandlerActive == ret.fn = "import_data" /\ ret.sigint = "graceful" /\ ret.sigterm = "graceful"

\* the with statement of the handler was entered and has been left
HandlerLeft == ret.fn = "import_data" /\ ret.entered /\ ret.pc \in {"summary", "except"}

SignalArrives == ret'.signals = ret.signals + 1

(***************************************************************************)
(* C33 as stated: while the handler is active the first signal only sets   *)
(* interrupted (same position, no cleanup, no exit), every later signal    *)
(* raises the exit with status 1, and once the handler has been left the   *)
(* cleanup has run if and only if interrupted is true.                     *)
(***************************************************************************)
C33_CleanupIffInterrupted ==
    [][/\ (HandlerActive /\ SignalArrives) =>
              IF ~ret.interrupted
              THEN ret' = [ret EXCEPT !.signals = @ + 1, !.interrupted = TRUE]
              ELSE ret'.exc = "SystemExit" /\ exit_code_of(ret'.exc) = 1
       /\ HandlerLeft' => (ret'.cleanup_ran <=> ret'.interrupted)]_vars

\* the command has ended and had created its job
EndedWithJob == ret.fn = "import_data" /\ ret.pc = "exited" /\ ret.job

LastMark == IF ret.marks = <<>> THEN "none" ELSE ret.marks[Len(ret.marks)]

(***************************************************************************)
(* C35 as stated: the job is never marked failed after it was marked       *)
(* completed, and when the command ends, exit code 0 goes with a job last  *)
(* marked completed and exit code 130 with a job last marked failed.       *)
(***************************************************************************)
C35_CompletedNeverFailed ==
    ret.fn = "import_data" =>
        /\ \A i, j \in DOMAIN ret.marks :
              (i < j /\ ret.marks[i] = "completed") => ret.marks[j] # "failed"
        /\ EndedWithJob =>
              /\ ret.exit_code = 0 => LastMark = "completed"
              /\ ret.exit_code = 130 => LastMark = "failed"

(***************************************************************************)
(* C36 as stated: when the command ends after creating its job, the job    *)
(* has been marked completed or failed.                                    *)
(***************************************************************************)
C36_JobTerminalAtExit ==
    EndedWithJob => LastMark \in {"completed", "failed"}

(***************************************************************************)
(* C34 as stated: every file that was under extract_to or media_dest when  *)
(* the call started is still there with its content, and every file the    *)
(* call removed was written by this call and rejected by validation.       *)
(***************************************************************************)
C34_ExistingFilesUntouched ==
    call.fn = "stream_extract" =>
        /\ \A f \in call.existing : f \in fs_files
        /\ \A o \in opened :
              ~OnDisk(o.by) => \E k \in DOMAIN warnings : warnings[k].by = o.by

\* validate_zip_structure reports the archive of the run valid for its format tag, and its
\* total uncompressed size is within the ceiling
PreflightPassed ==
    /\ validate_zip_structure(archive, source_type, TRUE, 0, "none").valid
    /\ ~too_large(archive, max_size_mb)

(***************************************************************************)
(* C37: a stream_extract run into empty roots, on an archive that          *)
(* validate_zip_structure reports valid for the same format tag and whose  *)
(* total size is within the ceiling, does not fail with the unsafe-path    *)
(* error nor with a missing-data-file error.                               *)
(***************************************************************************)
C37_PreflightSound ==
    (pc = "failed" /\ PreflightPassed) =>
        error.cause \notin {"unsafe_path", "missing_json", "data_not_found"}

\* a run on an archive that passed the pre-flight check, with a media entry, went through
\* the path check of every entry and found its data file
C37_Witness ==
    /\ PreflightPassed
    /\ pc = "done"
    /\ Len(archive) = 2
    /\ \E i \in Entries : MediaName(i) /\ OpenedBy(i)
    /\ result.kind = "result"

\* stream_extract treats entry i as a media file: it does not skip it as a directory entry and
\* its is_media_file test holds
ExtractedAsMedia(i) ==
    ~is_dir(call.entries[i]) /\ is_media_file(call.entries[i], call.source_type)

(***************************************************************************)
(* C38 as stated: validate_zip_structure and stream_extract apply the same *)
(* media test to every name, and has_media is true exactly when            *)
(* stream_extract treats at least one entry as media.                      *)
(***************************************************************************)
C38_SameMediaClassification ==
    Inspected /\ call.bad_file = 0 =>
        /\ \A i \in Names :
              has_media(<<call.entries[i].filename>>, call.source_type)
                  <=> is_media_file(call.entries[i], call.source_type)
        /\ ret.result.has_media <=> \E i \in Names : ExtractedAsMedia(i)

(***************************************************************************)
(* C39: in a stream_extract run (every entry extracts to its declared      *)
(* size) no media file is rejected with category size: no warning has that *)
(* category and warning_categories has no "Skipped due to size".           *)
(***************************************************************************)
C39_NoSizeRejection ==
    /\ \A k \in DOMAIN warnings : warnings[k].category # "size"
    /\ "Skipped due to size" \notin DOMAIN warning_categories
    /\ result.kind = "result" =>
          "Skipped due to size" \notin DOMAIN result.warning_categories

\* validation is on and a media file 16 bytes below the ceiling of 1 MB passed the size
\* check: it was rejected for its format
C39_Witness ==
    /\ validate_media
    /\ pc = "done"
    /\ \E k \in DOMAIN warnings :
          /\ archive[warnings[k].by].file_size = 1048560
          /\ warnings[k].category = "format"

Saving == ret.fn = "save_upload"

(***************************************************************************)
(* C40: at every point of the save loop of process_upload, on the executor *)
(* path and on the fallback path, the bytes written to the upload file are *)
(* at most max_size_mb * 1024 * 1024, and when the limit is crossed the    *)
(* crossing chunk is not written: the file holds the chunks before it.     *)
(***************************************************************************)
C40_WrittenWithinLimit ==
    Saving =>
        /\ ret.written <= call.max_size_mb * 1024 * 1024
        /\ ret.written <= ret.total_size
        /\ ret.too_large =>
              /\ ret.total_size > call.max_size_mb * 1024 * 1024
              /\ ret.written = ret.total_size - call.chunks[ret.k]
        /\ ~ret.too_large => ret.written = ret.total_size

\* the fallback loop stopped at a chunk that crossed the limit after writing one chunk
C40_Witness ==
    /\ Saving
    /\ ~call.executor
    /\ ret.too_large
    /\ ret.written = 1024 * 1024
    /\ ret.k = 2

====
